---- MODULE Spec2Model ----
(***************************************************************************)
(* Model of the segmentation and retrieval core of the Spice & Ember bot:  *)
(* src/chunker.py (token counting, the three chunking strategies, the      *)
(* router, the master chunker), src/retriever.py (intent detection, the     *)
(* two searches, smart_retrieve, format_context), src/embedder.py          *)
(* (embed_and_store) and src/rag_chain.py (build_prompt, call_llm,         *)
(* rag_chat, ChatSession).                                                 *)
(*                                                                         *)
(* A text is a sequence of one-character strings.  Python's str and list   *)
(* operations (split, strip, join, negative slices) are modelled by what   *)
(* they compute on such sequences.                                         *)
(***************************************************************************)
EXTENDS Integers, Sequences, FiniteSets, TLC

VARIABLES
    doc,        \* the document handed to the chunker: page_content, metadata
    args,       \* the keyword arguments of the call under way
    call,       \* the strategy call the last operation made
    chunks,     \* the list of Chunk objects the operation returned
    warned,     \* whether chunk_passthrough printed its size warning
    query,      \* the query text handed to detect_intent
    intent,     \* the category detect_intent returned
    stack,      \* the activation records of split, innermost last
    raw_chunks, \* what the outermost split returned
    deepest,    \* the finest separator level a call of split was made at
    documents,  \* the list of documents handed to chunk_all_documents
    collection, \* the entries of the vector index
    searches,   \* the queries the index was sent, in order
    results,    \* the result list smart_retrieve returned, format_context's
                \* input
    raised,     \* the exception that left the operation, or None
    context,    \* the text format_context returned
    sessions,   \* ChatSession.sessions: user id to conversation history
    turn,       \* how many messages of each user have been answered
    messages,   \* the message list build_prompt returned
    reply,      \* the text call_llm returned
    pc          \* position of the operation: "ready", "split", "emit",
                \* "done", or "cut" for a run the bounds cut short

\* the state of the retrieval side
retrieval == <<collection, searches, results, context>>

\* the state of the conversation side
dialogue == <<sessions, turn, messages, reply>>

vars ==
    <<doc, args, call, chunks, warned, query, intent, stack, raw_chunks,
      deepest, documents, collection, searches, results, raised, context,
      sessions, turn, messages, reply, pc>>

----------------------------------------------------------------------------
(* Bounds of the exploration.                                              *)

\* longest text handed to chunk_recursive
MaxLen == 4
\* largest chunk_size argument
MaxChunk == 3
\* largest overlap argument
MaxOverlap == 2
\* texts longer than this are not split further: the run is cut
MaxText == 14

----------------------------------------------------------------------------
(* Characters and Python string primitives.                                *)

SP == " "
NL == "\n"
TAB == "\t"
Whitespace == {SP, NL, TAB}
None == "None"

Abs(x) == IF x < 0 THEN 0 - x ELSE x
Min(a, b) == IF a < b THEN a ELSE b
Max(a, b) == IF a > b THEN a ELSE b

\* s[-n:] of Python for n >= 0: -0 is 0, so s[-0:] is the whole of s
LastN(s, n) ==
    IF n = 0 \/ n >= Len(s) THEN s ELSE SubSeq(s, Len(s) - n + 1, Len(s))

\* s[:-1]
AllButLast(s) == SubSeq(s, 1, Len(s) - 1)

\* str.strip()
lstrip(s) ==
    LET keep == {i \in 1..Len(s) : s[i] \notin Whitespace}
    IN  IF keep = {} THEN <<>>
        ELSE SubSeq(s, CHOOSE i \in keep : \A j \in keep : i <= j, Len(s))

rstrip(s) ==
    LET keep == {i \in 1..Len(s) : s[i] \notin Whitespace}
    IN  IF keep = {} THEN <<>>
        ELSE SubSeq(s, 1, CHOOSE i \in keep : \A j \in keep : j <= i)

strip(s) == rstrip(lstrip(s))

\* whether sep occurs in s at position i
OccursAt(s, sep, i) ==
    /\ i >= 1
    /\ i + Len(sep) - 1 <= Len(s)
    /\ \A j \in 1..Len(sep) : s[i + j - 1] = sep[j]

\* w in s, for strings
Contains(s, w) == \E i \in 1..(Len(s) - Len(w) + 1) : OccursAt(s, w, i)

\* the least member of a set of integers
Least(S) == CHOOSE x \in S : \A y \in S : x <= y

\* the value of a one-element set
Only(S) == CHOOSE x \in S : TRUE

\* where sep first occurs in s at or after position from; past the end of s
\* if it does not
FirstHit(s, sep, from) ==
    Least({i \in from..Len(s) : OccursAt(s, sep, i)} \cup {Len(s) + 1})

\* str.split(sep) with a non-empty separator, scanning s from position from
RECURSIVE SplitFrom(_, _, _)
SplitFrom(s, sep, from) ==
    Only({ IF i > Len(s) THEN <<SubSeq(s, from, Len(s))>>
           ELSE <<SubSeq(s, from, i - 1)>> \o SplitFrom(s, sep, i + Len(sep))
           : i \in {FirstHit(s, sep, from)} })

SplitOn(s, sep) == SplitFrom(s, sep, 1)

\* where the word that starts at position from ends
WordEnd(s, from) ==
    Least({i \in from..Len(s) : s[i] \in Whitespace} \cup {Len(s) + 1}) - 1

\* where the next word starts at or after position from; past the end of s
\* if there is none
WordStart(s, from) ==
    Least({i \in from..Len(s) : s[i] \notin Whitespace} \cup {Len(s) + 1})

\* str.split() without arguments: the maximal runs of non-whitespace,
\* scanning s from position from
RECURSIVE WordsFrom(_, _)
WordsFrom(s, from) ==
    Only({ IF b > Len(s) THEN <<>>
           ELSE <<SubSeq(s, b, WordEnd(s, b))>>
                    \o WordsFrom(s, WordEnd(s, b) + 1)
           : b \in {WordStart(s, from)} })

SplitWords(s) == WordsFrom(s, 1)

\* sep.join(items)
RECURSIVE Join(_, _)
Join(items, sep) ==
    IF items = <<>> THEN <<>>
    ELSE IF Len(items) = 1 THEN items[1]
    ELSE items[1] \o sep \o Join(Tail(items), sep)

\* {**base, **over}
Merge(base, over) ==
    [k \in (DOMAIN base) \cup (DOMAIN over) |->
        IF k \in DOMAIN over THEN over[k] ELSE base[k]]

\* dict.get(key, default)
Get(d, key, default) == IF key \in DOMAIN d THEN d[key] ELSE default

----------------------------------------------------------------------------
(* count_tokens: the tokenizer is an external library.  It is modelled as  *)
(* one token per character, except that a space directly before a          *)
(* non-whitespace character belongs to that character's token (as in the   *)
(* byte-pair vocabularies, where " word" is one token).                    *)

count_tokens(text) ==
    Cardinality({i \in 1..Len(text) :
        ~(text[i] = SP /\ i < Len(text) /\ text[i + 1] \notin Whitespace)})

----------------------------------------------------------------------------
(* Chunk dataclass and the metadata keys the chunkers write.               *)

Chunk(text, metadata, token_count) ==
    [text |-> text, metadata |-> metadata, token_count |-> token_count]

\* a document's own metadata never shadows these: they are written last
K_index == "chunk_index"
K_total == "chunk_total"
K_strategy == "chunk_strategy"

----------------------------------------------------------------------------
(* STRATEGY 1: chunk_passthrough.                                          *)

PassthroughWarnTokens == 500

PassthroughMetadata(metadata) ==
    Merge(metadata, [chunk_index |-> 0, chunk_strategy |-> "passthrough"])

PassthroughWarns(text) == count_tokens(text) > PassthroughWarnTokens

\* variant: the text is trimmed as the other two strategies trim theirs
chunk_passthrough_trimmed(d) ==
    <<Chunk(strip(d.page_content),
            PassthroughMetadata(d.metadata),
            count_tokens(d.page_content))>>

chunk_passthrough(d) ==
    <<Chunk(d.page_content,
            PassthroughMetadata(d.metadata),
            count_tokens(d.page_content))>>

----------------------------------------------------------------------------
(* STRATEGY 2: chunk_recursive.                                            *)

separators == << <<NL, NL>>, <<NL>>, <<".", SP>>, <<SP>> >>

\* the result of a split that was not carried through: a "text" no input
\* can be, since its one element is not a character
Cut == <<"#cut">>
IsCut(result) == result = <<Cut>>

\* variant: a strict comparison
FitsStrict(text, chunk_size) == count_tokens(text) < chunk_size

\* count_tokens(text) <= chunk_size
Fits(text, chunk_size) == count_tokens(text) <= chunk_size

\* current[-overlap:] + [word], current already holding word as its last
CarryWords(current, word, overlap) == LastN(current, overlap) \o <<word>>

\* the word-level hard split, one iteration of "for word in words" per call
RECURSIVE HardLoop(_, _, _, _, _, _)
HardLoop(words, k, result, current, chunk_size, overlap) ==
    IF k > Len(words)
    THEN IF current # <<>> THEN Append(result, Join(current, <<SP>>))
         ELSE result
    ELSE LET cur == Append(current, words[k])
         IN  IF ~Fits(Join(cur, <<SP>>), chunk_size)
             THEN HardLoop(words, k + 1,
                           Append(result, Join(AllButLast(cur), <<SP>>)),
                           CarryWords(cur, words[k], overlap),
                           chunk_size, overlap)
             ELSE HardLoop(words, k + 1, result, cur, chunk_size, overlap)

HardSplit(text, chunk_size, overlap) ==
    HardLoop(SplitWords(text), 1, <<>>, <<>>, chunk_size, overlap)

\* sub_chunks[-1][-overlap*4:] if sub_chunks else ""
OverlapText(sub_chunks, overlap) ==
    IF sub_chunks # <<>>
    THEN LastN(sub_chunks[Len(sub_chunks)], overlap * 4)
    ELSE <<>>

\* variant: the levels do not filter their result
KeepBlank(result) == result

\* [c for c in result if c.strip()]
DropBlank(result) == SelectSeq(result, LAMBDA c : strip(c) # <<>>)

\* a recursive call that stays at its caller's separator level
NextLevelSame(sep_idx) == sep_idx

\* the separator level a call of split hands the buffer to
NextLevel(sep_idx) == sep_idx + 1

RECURSIVE split(_, _, _, _)
RECURSIVE LevelLoop(_, _, _, _, _, _, _)

\* "for part in parts" from part k on, then the final flush and the filter
LevelLoop(parts, k, result, current_chunk, sep_idx, chunk_size, overlap) ==
    LET sep == separators[sep_idx + 1]
    IN  IF k > Len(parts)
        THEN IF current_chunk # <<>>
             THEN LET sub == split(current_chunk, NextLevel(sep_idx),
                                   chunk_size, overlap)
                  IN  IF IsCut(sub) THEN sub ELSE DropBlank(result \o sub)
             ELSE DropBlank(result)
        ELSE LET part == parts[k]
                 candidate == IF current_chunk # <<>>
                              THEN current_chunk \o sep \o part
                              ELSE part
             IN  IF Fits(candidate, chunk_size)
                 THEN LevelLoop(parts, k + 1, result, candidate,
                                sep_idx, chunk_size, overlap)
                 ELSE IF current_chunk # <<>>
                 THEN LET sub == split(current_chunk, NextLevel(sep_idx),
                                       chunk_size, overlap)
                          overlap_text == OverlapText(sub, overlap)
                      IN  IF IsCut(sub) THEN sub
                          ELSE LevelLoop(parts, k + 1, result \o sub,
                                   IF overlap_text # <<>>
                                   THEN overlap_text \o sep \o part
                                   ELSE part,
                                   sep_idx, chunk_size, overlap)
                 ELSE LevelLoop(parts, k + 1, result, part,
                                sep_idx, chunk_size, overlap)

split(text, sep_idx, chunk_size, overlap) ==
    IF Fits(text, chunk_size) THEN <<text>>
    ELSE IF Len(text) > MaxText THEN <<Cut>>
    ELSE IF sep_idx >= Len(separators)
    THEN HardSplit(text, chunk_size, overlap)
    ELSE LevelLoop(SplitOn(text, separators[sep_idx + 1]), 1, <<>>, <<>>,
                   sep_idx, chunk_size, overlap)

RecursiveMetadata(metadata, i, total, chunk_size, overlap) ==
    Merge(metadata, [chunk_index |-> i, chunk_total |-> total,
                     chunk_strategy |-> "recursive",
                     chunk_size_target |-> chunk_size, overlap |-> overlap])

\* variant: the emission loop hands the raw texts on untrimmed
EmitUnstripped(raw, metadata, chunk_size, overlap) ==
    LET all == [i \in 1..Len(raw) |->
                 Chunk(raw[i],
                       RecursiveMetadata(metadata, i - 1, Len(raw),
                                         chunk_size, overlap),
                       count_tokens(raw[i]))]
    IN  SelectSeq(all, LAMBDA c : c.text # <<>>)

\* the emission loop: enumerate(raw_chunks), blank texts skipped
EmitRecursive(raw, metadata, chunk_size, overlap) ==
    LET all == [i \in 1..Len(raw) |->
                 Chunk(strip(raw[i]),
                       RecursiveMetadata(metadata, i - 1, Len(raw),
                                         chunk_size, overlap),
                       count_tokens(raw[i]))]
    IN  SelectSeq(all, LAMBDA c : c.text # <<>>)

chunk_recursive(d, chunk_size, overlap) ==
    LET raw == split(d.page_content, 0, chunk_size, overlap)
    IN  IF IsCut(raw) THEN <<>>
        ELSE EmitRecursive(raw, d.metadata, chunk_size, overlap)

----------------------------------------------------------------------------
(* STRATEGY 3: chunk_sentence_window.                                      *)

\* a sentence is kept when len(s.strip()) > 20
MinSentenceChars == 20

Terminators == {".", "!", "?"}

\* re.split(r'(?<=[.!?])\s+', text): the text is cut at every maximal run
\* of whitespace that directly follows a terminator; the run is dropped
RECURSIVE RegexSplit(_)
RegexSplit(s) ==
    LET starts == {i \in 2..Len(s) :
                      s[i] \in Whitespace /\ s[i - 1] \in Terminators}
    IN  IF starts = {} THEN <<s>>
        ELSE LET b == CHOOSE i \in starts : \A j \in starts : i <= j
                 after == {j \in b..Len(s) : s[j] \notin Whitespace}
                 e == IF after = {} THEN Len(s) + 1
                      ELSE CHOOSE j \in after : \A h \in after : j <= h
             IN  <<SubSeq(s, 1, b - 1)>> \o RegexSplit(SubSeq(s, e, Len(s)))

\* variant: a non-strict comparison
RetainedFromThreshold(s) == Len(strip(s)) >= MinSentenceChars

\* the condition of the list comprehension
Retained(s) == Len(strip(s)) > MinSentenceChars

\* [s.strip() for s in sentences if len(s.strip()) > 20]
Sentences(text) ==
    LET pieces == RegexSplit(text)
        kept == SelectSeq(pieces, Retained)
    IN  [i \in 1..Len(kept) |-> strip(kept[i])]

\* start and end of the window of sentence i (0-based, end exclusive)
WindowStart(i, window_size) == Max(0, i - window_size)
\* variant: the slice end is not made exclusive
WindowEndShort(i, n, window_size) == Min(n, i + window_size)
WindowEnd(i, n, window_size) == Min(n, i + window_size + 1)

\* " ".join(sentences[start:end])
WindowText(sentences, i, window_size) ==
    Join(SubSeq(sentences, WindowStart(i, window_size) + 1,
                WindowEnd(i, Len(sentences), window_size)), <<SP>>)

WindowMetadata(metadata, i, total, window_text, window_size) ==
    Merge(metadata, [chunk_index |-> i, chunk_total |-> total,
                     chunk_strategy |-> "sentence_window",
                     window_text |-> window_text,
                     window_size |-> window_size])

chunk_sentence_window(d, window_size) ==
    LET sentences == Sentences(d.page_content)
    IN  [j \in 1..Len(sentences) |->
            Chunk(sentences[j],
                  WindowMetadata(d.metadata, j - 1, Len(sentences),
                                 WindowText(sentences, j - 1, window_size),
                                 window_size),
                  count_tokens(sentences[j]))]

----------------------------------------------------------------------------
(* ROUTING: chunk_document.                                                *)

HtmlChunkSize == 300
HtmlOverlap == 50
PdfChunkSize == 350
PdfOverlap == 60
DefaultChunkSize == 300
DefaultOverlap == 50
ChefWindowSize == 2

PassthroughFormats ==
    {"table_row", "excel_row", "key_value_table", "qa_pair",
     "inline_structured"}

CallPassthrough == [fn |-> "chunk_passthrough"]
CallRecursive(chunk_size, overlap) ==
    [fn |-> "chunk_recursive", chunk_size |-> chunk_size,
     overlap |-> overlap]
CallWindow(window_size) ==
    [fn |-> "chunk_sentence_window", window_size |-> window_size]

\* variant: the format rules are tried before the doc_type rule
RouteTagsFormatFirst(fmt, doc_type) ==
    IF fmt \in PassthroughFormats THEN CallPassthrough
    ELSE IF fmt = "plain_text" THEN CallPassthrough
    ELSE IF fmt = "html_parsed"
    THEN CallRecursive(HtmlChunkSize, HtmlOverlap)
    ELSE IF fmt = "text" THEN CallRecursive(PdfChunkSize, PdfOverlap)
    ELSE IF doc_type = "chef_note" THEN CallWindow(ChefWindowSize)
    ELSE CallRecursive(DefaultChunkSize, DefaultOverlap)

\* the strategy call chunk_document makes for the tags fmt and doc_type
RouteTags(fmt, doc_type) ==
    IF fmt \in PassthroughFormats THEN CallPassthrough
    ELSE IF fmt = "plain_text" THEN CallPassthrough
    ELSE IF doc_type = "chef_note" THEN CallWindow(ChefWindowSize)
    ELSE IF fmt = "html_parsed"
    THEN CallRecursive(HtmlChunkSize, HtmlOverlap)
    ELSE IF fmt = "text" THEN CallRecursive(PdfChunkSize, PdfOverlap)
    ELSE CallRecursive(DefaultChunkSize, DefaultOverlap)

Route(d) ==
    RouteTags(Get(d.metadata, "format", ""), Get(d.metadata, "doc_type", ""))

\* what the routed call returns
Apply(c, d) ==
    IF c.fn = "chunk_passthrough" THEN chunk_passthrough(d)
    ELSE IF c.fn = "chunk_sentence_window"
    THEN chunk_sentence_window(d, c.window_size)
    ELSE chunk_recursive(d, c.chunk_size, c.overlap)

\* whether the routed call was not carried through
ApplyCut(c, d) ==
    /\ c.fn = "chunk_recursive"
    /\ IsCut(split(d.page_content, 0, c.chunk_size, c.overlap))

chunk_document(d) == Apply(Route(d), d)

----------------------------------------------------------------------------
(* State machine: one operation is applied to the document drawn by Init.  *)

EmptyMeta == <<>>
NoDoc == [page_content |-> <<>>, metadata |-> EmptyMeta]
NoCall == [fn |-> "none"]
NoArgs == [fn |-> "none"]
\* self.sessions = {}: no user has an entry
NoSessions == <<>>

\* every text of at most n characters over the alphabet
Texts(alphabet, n) == UNION {[1..k -> alphabet] : k \in 0..n}

Alphabet == {"a", SP, NL, "."}

\* metadata a loader may hand over: none, or keys that collide with the
\* chunker's own
StaleMeta == [chunk_index |-> 7, chunk_total |-> 9]
RecMetas == {EmptyMeta, StaleMeta}

IdleCore ==
    /\ args = NoArgs
    /\ call = NoCall
    /\ chunks = <<>>
    /\ warned = FALSE
    /\ intent = None
    /\ stack = <<>>
    /\ raw_chunks = <<>>
    /\ deepest = 0
    /\ searches = <<>>
    /\ raised = None
    /\ context = <<>>
    /\ sessions = NoSessions
    /\ turn = NoSessions
    /\ messages = <<>>
    /\ reply = <<>>
    /\ pc = "ready"

Idle ==
    /\ IdleCore
    /\ documents = <<>>
    /\ collection = <<>>
    /\ results = <<>>

InitRecursive ==
    /\ doc \in {[page_content |-> t, metadata |-> m] :
                    t \in Texts(Alphabet, MaxLen), m \in RecMetas}
    /\ query = <<>>
    /\ Idle

\* chunk_recursive(doc, chunk_size, overlap)
ChunkRecursive(chunk_size, overlap) ==
    /\ pc = "ready"
    /\ args' = [fn |-> "chunk_recursive", chunk_size |-> chunk_size,
                overlap |-> overlap]
    /\ call' = args'
    /\ raw_chunks' = split(doc.page_content, 0, chunk_size, overlap)
    /\ chunks' = IF IsCut(raw_chunks') THEN <<>>
                 ELSE EmitRecursive(raw_chunks', doc.metadata,
                                    chunk_size, overlap)
    /\ pc' = IF IsCut(raw_chunks') THEN "cut" ELSE "done"
    /\ UNCHANGED <<doc, warned, query, intent, stack, deepest,
                   documents, raised, retrieval, dialogue>>

NextRecursive ==
    \E chunk_size \in 1..MaxChunk, overlap \in 0..MaxOverlap :
        ChunkRecursive(chunk_size, overlap)

SpecRecursive == InitRecursive /\ [][NextRecursive]_vars

----------------------------------------------------------------------------
(* Sentence-window runs: the text is a run of up to MaxSentences pieces,   *)
(* each a body of one letter, a closing character and a gap.               *)

\* most pieces a text is built from
MaxSentences == 3
\* largest window_size argument
MaxWindow == 2

\* lengths of a piece without its gap: around the retention threshold
PieceLens ==
    {3, MinSentenceChars - 1, MinSentenceChars, MinSentenceChars + 1}
\* a piece closes with a terminator, or with a letter and runs on
PieceStops == <<".", "!", "?">>
PieceEnds(j) == {PieceStops[((j - 1) % Len(PieceStops)) + 1], "x"}
PieceLetters == <<"a", "b", "c", "d", "e">>
PieceGap(j) == IF j % 2 = 1 THEN <<SP>> ELSE <<NL, SP>>

Piece(j, len, end) ==
    [i \in 1..(len - 1) |-> PieceLetters[((j - 1) % Len(PieceLetters)) + 1]]
        \o <<end>> \o PieceGap(j)

\* the texts of exactly n pieces
RECURSIVE ExactPieces(_)
ExactPieces(n) ==
    IF n = 0 THEN {<<>>}
    ELSE {t \o Piece(n, len, end) :
             t \in ExactPieces(n - 1), len \in PieceLens, end \in PieceEnds(n)}

PieceTexts(n) == UNION {ExactPieces(k) : k \in 0..n}

InitWindow ==
    /\ doc \in {[page_content |-> t, metadata |-> m] :
                    t \in PieceTexts(MaxSentences), m \in RecMetas}
    /\ query = <<>>
    /\ Idle

\* chunk_sentence_window(doc, window_size)
ChunkSentenceWindow(window_size) ==
    /\ pc = "ready"
    /\ args' = CallWindow(window_size)
    /\ call' = args'
    /\ chunks' = chunk_sentence_window(doc, window_size)
    /\ pc' = "done"
    /\ UNCHANGED <<doc, warned, query, intent, stack, raw_chunks, deepest,
                   documents, raised, retrieval, dialogue>>

NextWindow ==
    \E window_size \in 0..MaxWindow : ChunkSentenceWindow(window_size)

SpecWindow == InitWindow /\ [][NextWindow]_vars

----------------------------------------------------------------------------
(* Router runs: documents with every combination of the format and         *)
(* doc_type tags, present or missing, over a few texts.                    *)

Formats ==
    PassthroughFormats \cup {"plain_text", "html_parsed", "text", "markdown"}
DocTypes == {"chef_note", "menu_item"}

\* metadata with the given tags; None leaves the key out
TagMeta(fmt, doc_type, stale) ==
    Merge(Merge(IF fmt = None THEN EmptyMeta ELSE [format |-> fmt],
                IF doc_type = None THEN EmptyMeta
                ELSE [doc_type |-> doc_type]),
          stale)

ShortText == <<"a", SP, "a", ".">>
ChefText == Piece(1, MinSentenceChars + 1, ".") \o Piece(2, 3, "!")
                \o Piece(3, MinSentenceChars + 2, "?")
\* a text of exactly n tokens
WordOf(n) == [i \in 1..n |-> "a"]

RouteTexts ==
    {<<>>, <<SP>>, ShortText, ChefText,
     WordOf(PassthroughWarnTokens), WordOf(PassthroughWarnTokens + 1)}

InitRoute ==
    /\ doc \in {[page_content |-> t, metadata |-> TagMeta(f, dt, m)] :
                    t \in RouteTexts, f \in Formats \cup {None},
                    dt \in DocTypes \cup {None}, m \in RecMetas}
    /\ query = <<>>
    /\ Idle

\* chunk_document(doc)
ChunkDocument ==
    /\ pc = "ready"
    /\ args' = [fn |-> "chunk_document"]
    /\ call' = Route(doc)
    /\ chunks' = chunk_document(doc)
    /\ warned' = (call'.fn = "chunk_passthrough"
                    /\ PassthroughWarns(doc.page_content))
    /\ pc' = IF ApplyCut(call', doc) THEN "cut" ELSE "done"
    /\ UNCHANGED <<doc, query, intent, stack, raw_chunks, deepest,
                   documents, raised, retrieval, dialogue>>

\* chunk_passthrough(doc)
ChunkPassthrough ==
    /\ pc = "ready"
    /\ args' = CallPassthrough
    /\ call' = CallPassthrough
    /\ chunks' = chunk_passthrough(doc)
    /\ warned' = PassthroughWarns(doc.page_content)
    /\ pc' = "done"
    /\ UNCHANGED <<doc, query, intent, stack, raw_chunks, deepest,
                   documents, raised, retrieval, dialogue>>

NextRoute == ChunkDocument \/ ChunkPassthrough

SpecRoute == InitRoute /\ [][NextRoute]_vars

----------------------------------------------------------------------------
(* src/retriever.py: detect_intent.                                        *)

UpperCase == <<"A", "B", "C", "D", "E", "F", "G", "H", "I", "J", "K", "L", "M">>
                \o <<"N", "O", "P", "Q", "R", "S", "T", "U", "V", "W", "X", "Y", "Z">>
LowerCase == <<"a", "b", "c", "d", "e", "f", "g", "h", "i", "j", "k", "l", "m">>
                \o <<"n", "o", "p", "q", "r", "s", "t", "u", "v", "w", "x", "y", "z">>

\* str.lower(), character by character
lower(text) ==
    [i \in 1..Len(text) |->
        IF \E k \in 1..Len(UpperCase) : UpperCase[k] = text[i]
        THEN LowerCase[CHOOSE k \in 1..Len(UpperCase) : UpperCase[k] = text[i]]
        ELSE text[i]]

DietaryWords ==
    {<<"v", "e", "g", "a", "n">>,
     <<"v", "e", "g", "e", "t", "a", "r", "i", "a", "n">>,
     <<"g", "l", "u", "t", "e", "n">>,
     <<"a", "l", "l", "e", "r", "g", "y">>,
     <<"a", "l", "l", "e", "r", "g", "e", "n">>,
     <<"n", "u", "t">>,
     <<"d", "a", "i", "r", "y">>}

OrderingWords ==
    {<<"o", "r", "d", "e", "r">>,
     <<"d", "e", "l", "i", "v", "e", "r", "y">>,
     <<"d", "e", "l", "i", "v", "e", "r">>,
     <<"m", "i", "n", "i", "m", "u", "m">>,
     <<"h", "o", "w", " ", "l", "o", "n", "g">>,
     <<"p", "i", "c", "k", " ", "u", "p">>,
     <<"p", "i", "c", "k", "u", "p">>}

HoursWords ==
    {<<"o", "p", "e", "n">>,
     <<"h", "o", "u", "r">>,
     <<"c", "l", "o", "s", "e">>,
     <<"t", "i", "m", "e">>,
     <<"w", "h", "e", "n">>,
     <<"m", "o", "n", "d", "a", "y">>,
     <<"s", "u", "n", "d", "a", "y">>,
     <<"w", "e", "e", "k", "e", "n", "d">>}

BookingWords ==
    {<<"b", "o", "o", "k">>,
     <<"r", "e", "s", "e", "r", "v", "a", "t", "i", "o", "n">>,
     <<"r", "e", "s", "e", "r", "v", "e">>,
     <<"t", "a", "b", "l", "e">>,
     <<"s", "e", "a", "t">>}

MenuItemWords ==
    {<<"m", "e", "n", "u">>,
     <<"f", "o", "o", "d">>,
     <<"e", "a", "t">>,
     <<"d", "i", "s", "h">>,
     <<"m", "e", "a", "l">>,
     <<"p", "r", "i", "c", "e">>,
     <<"c", "o", "s", "t">>,
     <<"s", "p", "i", "c", "y">>,
     <<"s", "t", "a", "r", "t", "e", "r">>,
     <<"m", "a", "i", "n">>,
     <<"d", "e", "s", "s", "e", "r", "t">>}

\* any(w in q for w in words)
AnyIn(words, q) == \E w \in words : Contains(q, w)

\* variant: the query is matched as typed
detect_intent_as_typed(text) ==
    LET q == text
    IN  IF AnyIn(DietaryWords, q) THEN "dietary"
        ELSE IF AnyIn(OrderingWords, q) THEN "ordering"
        ELSE IF AnyIn(HoursWords, q) THEN "hours"
        ELSE IF AnyIn(BookingWords, q) THEN "booking"
        ELSE IF AnyIn(MenuItemWords, q) THEN "menu_item"
        ELSE "general"

detect_intent(text) ==
    LET q == lower(text)
    IN  IF AnyIn(DietaryWords, q) THEN "dietary"
        ELSE IF AnyIn(OrderingWords, q) THEN "ordering"
        ELSE IF AnyIn(HoursWords, q) THEN "hours"
        ELSE IF AnyIn(BookingWords, q) THEN "booking"
        ELSE IF AnyIn(MenuItemWords, q) THEN "menu_item"
        ELSE "general"

----------------------------------------------------------------------------
(* Distances and similarities.  The index reports a distance as a float;   *)
(* here a number is an integer count of hundred-thousandths, so that       *)
(* round(x, 4) has something to round away.                                *)

\* 1.0 in hundred-thousandths
One == 100000

\* one unit of the fourth decimal place, in hundred-thousandths
FourthPlace == 10

\* round(x, 4): the nearest multiple of 0.0001.  A tie goes to the even one
\* here; on floats the binary value decides it, and the distances of the
\* runs below have no tie.
round4(x) ==
    LET q == x \div FourthPlace
        r == x % FourthPlace
    IN  IF 2 * r < FourthPlace THEN FourthPlace * q
        ELSE IF 2 * r > FourthPlace THEN FourthPlace * (q + 1)
        ELSE IF q % 2 = 0 THEN FourthPlace * q
        ELSE FourthPlace * (q + 1)

\* "similarity": 1 - dist, unrounded
similarity_exact(dist) == One - dist

\* "similarity": round(1 - dist, 4)
similarity(dist) == round4(One - dist)

\* the 0.3 of "r['similarity'] >= 0.3"
SimilarityFloor == 30000

----------------------------------------------------------------------------
(* Metadata filters.  A filter dict is a sequence of (key, condition)      *)
(* pairs; a condition is a plain value (exact match) or {"$in": [...]}.    *)

Eq(value) == [op |-> "eq", operand |-> <<value>>]
In(values) == [op |-> "$in", operand |-> values]

NoFilter == <<>>

\* INTENT_FILTERS; None is the empty sequence, which is as falsy
INTENT_FILTERS ==
    [dietary   |-> << <<"doc_type", Eq("menu_item")>> >>,
     ordering  |-> << <<"doc_type", Eq("faq_section")>> >>,
     hours     |-> << <<"doc_type", In(<<"restaurant_info", "faq_section">>)>> >>,
     booking   |-> << <<"doc_type", In(<<"faq_section", "restaurant_info">>)>> >>,
     menu_item |-> << <<"doc_type", Eq("menu_item")>> >>,
     general   |-> NoFilter]

\* the characters of the names that occur in filters and metadata
Chars(name) ==
    CASE name = "doc_type" -> <<"d", "o", "c", "_", "t", "y", "p", "e">>
      [] name = "menu_item" -> <<"m", "e", "n", "u", "_", "i", "t", "e", "m">>
      [] name = "faq_section" ->
            <<"f", "a", "q", "_", "s", "e", "c", "t", "i", "o", "n">>
      [] name = "restaurant_info" ->
            <<"r", "e", "s", "t", "a", "u", "r", "a", "n", "t", "_",
              "i", "n", "f", "o">>
      [] name = "$in" -> <<"$", "i", "n">>
      [] name = "unknown" -> <<"u", "n", "k", "n", "o", "w", "n">>
      [] name = "kb" -> <<"k", "b">>
      [] name = "pdf" -> <<"p", "d", "f">>
      [] name = "chef_note" -> <<"c", "h", "e", "f", "_", "n", "o", "t", "e">>

\* repr of a str
Quoted(name) == <<"'">> \o Chars(name) \o <<"'">>

\* repr of a list of str
ListRepr(values) ==
    <<"[">> \o Join([j \in 1..Len(values) |-> Quoted(values[j])],
                    <<",", SP>>) \o <<"]">>

\* repr of a condition
ConditionRepr(cond) ==
    IF cond.op = "eq" THEN Quoted(cond.operand[1])
    ELSE <<"{">> \o Quoted(cond.op) \o <<":", SP>> \o ListRepr(cond.operand)
             \o <<"}">>

\* str(filters) for a dict
DictRepr(filters) ==
    <<"{">> \o Join([j \in 1..Len(filters) |->
                        Quoted(filters[j][1]) \o <<":", SP>>
                            \o ConditionRepr(filters[j][2])],
                    <<",", SP>>) \o <<"}">>

\* filters and "$in" not in str(filters)
UsesFilter(filters) ==
    /\ filters # NoFilter
    /\ ~Contains(DictRepr(filters), Chars("$in"))

\* whether a metadata dict satisfies one condition of a where clause
Satisfies(metadata, pair) ==
    /\ pair[1] \in DOMAIN metadata
    /\ \E j \in 1..Len(pair[2].operand) : metadata[pair[1]] = pair[2].operand[j]

\* no where argument
NoWhere == [wrapped |-> FALSE, conditions |-> <<>>]

\* where = filters if len(filters) == 1 else {"$and": [{k: v} ...]}
Where(filters) == [wrapped |-> Len(filters) # 1, conditions |-> filters]

\* the index keeps the entries that satisfy the one condition, or every
\* condition under "$and"
Matches(metadata, where) ==
    \A j \in 1..Len(where.conditions) :
        Satisfies(metadata, where.conditions[j])

----------------------------------------------------------------------------
(* The index.  An entry has a text, a metadata dict, its distance to the   *)
(* vector embed_query gives the query, and its distance to the vector the  *)
(* collection's own embedding gives the query text.                        *)

ByEmbedding == "query_embeddings"
ByText == "query_texts"

DistanceOf(entry, by) ==
    IF by = ByEmbedding THEN entry.distance ELSE entry.text_distance

\* ascending distance, entries at one distance in the collection's order
RECURSIVE Ranked(_, _)
Ranked(entries, by) ==
    IF entries = <<>> THEN <<>>
    ELSE LET best == Least({j \in 1..Len(entries) :
                        \A h \in 1..Len(entries) :
                            DistanceOf(entries[j], by)
                                <= DistanceOf(entries[h], by)})
         IN  <<entries[best]>>
                 \o Ranked(SubSeq(entries, 1, best - 1)
                               \o SubSeq(entries, best + 1, Len(entries)), by)

\* collection.query(n_results=k, where=where): the k nearest entries that
\* match, as the three parallel lists of the response
Response(entries, by, k, where) ==
    LET hits == Ranked(SelectSeq(entries,
                           LAMBDA e : Matches(e.metadata, where)), by)
        top == SubSeq(hits, 1, Min(k, Len(hits)))
    IN  [documents |-> [j \in 1..Len(top) |-> top[j].text],
         metadatas |-> [j \in 1..Len(top) |-> top[j].metadata],
         distances |-> [j \in 1..Len(top) |-> DistanceOf(top[j], by)]]

\* the list comprehension over zip(docs, metas, distances)
ToResults(response) ==
    [j \in 1..Min(Len(response.documents),
                  Min(Len(response.metadatas), Len(response.distances))) |->
        [text |-> response.documents[j],
         metadata |-> response.metadatas[j],
         distance |-> response.distances[j],
         similarity |-> similarity(response.distances[j])]]

NoResponse == [documents |-> <<>>, metadatas |-> <<>>, distances |-> <<>>]

\* one call of collection.query: what it was sent, and what came back
Sent(fn, q, by, k, where, entries, ok) ==
    [fn |-> fn, query |-> q, by |-> by, k |-> k, where |-> where,
     ok |-> ok,
     response |-> IF ok THEN Response(entries, by, k, where)
                  ELSE NoResponse]

\* search(query, k)
search(entries, k) == ToResults(Response(entries, ByEmbedding, k, NoWhere))

\* search_with_filter(query, filters, k)
search_with_filter(entries, filters, k) ==
    ToResults(Response(entries, ByText, k, Where(filters)))

\* results = [r for r in results if r["similarity"] >= 0.3]
KeepAll(found) == found
TrimReversed(found) ==
    LET kept == SelectSeq(found, LAMBDA r : r.similarity >= SimilarityFloor)
    IN  [j \in 1..Len(kept) |-> kept[Len(kept) + 1 - j]]
Trim(found) == SelectSeq(found, LAMBDA r : r.similarity >= SimilarityFloor)

----------------------------------------------------------------------------
(* format_context: the text of the blocks, character by character.         *)

Digits == <<"0", "1", "2", "3", "4", "5", "6", "7", "8", "9">>

\* str of a non-negative int
RECURSIVE IntText(_)
IntText(n) ==
    IF n < 10 THEN <<Digits[n + 1]>>
    ELSE IntText(n \div 10) \o <<Digits[(n % 10) + 1]>>

\* a run of digits without its trailing zeros, one digit at least
RECURSIVE Shortest(_)
Shortest(ds) ==
    IF Len(ds) > 1 /\ ds[Len(ds)] = "0" THEN Shortest(AllButLast(ds)) ELSE ds

\* str of a float that round(x, 4) returned and that is not a negative zero:
\* sign, whole part, point, the decimals it needs
FloatText(x) ==
    LET places == Abs(x) \div FourthPlace
        whole == places \div 10000
        part == places % 10000
        four == <<Digits[(part \div 1000) + 1],
                  Digits[((part \div 100) % 10) + 1],
                  Digits[((part \div 10) % 10) + 1],
                  Digits[(part % 10) + 1]>>
    IN  (IF x < 0 THEN <<"-">> ELSE <<>>)
            \o IntText(whole) \o <<".">> \o Shortest(four)

\* a format_context that hands emptiness on
EmptyText == <<>>

\* "No relevant information found in the knowledge base."
Sentinel ==
    <<"N", "o", SP, "r", "e", "l", "e", "v", "a", "n", "t", SP, "i", "n",
      "f", "o", "r", "m", "a", "t", "i", "o", "n", SP, "f", "o", "u", "n",
      "d", SP, "i", "n", SP, "t", "h", "e", SP, "k", "n", "o", "w", "l",
      "e", "d", "g", "e", SP, "b", "a", "s", "e", ".">>

\* "\n\n---\n\n"
Delimiter == <<NL, NL, "-", "-", "-", NL, NL>>

LabelOpen == <<"[", "S", "o", "u", "r", "c", "e", SP>>
LabelSlash == <<SP, "/", SP>>
LabelRelevance ==
    <<SP, "|", SP, "r", "e", "l", "e", "v", "a", "n", "c", "e", ":", SP>>

\* enumerate(results, 0)
RankFromZero(j) == j - 1

\* enumerate(results, 1)
RankOf(j) == j

\* one element of context_parts
Block(j, r) ==
    LET source == Get(r.metadata, "source", "unknown")
        doc_type == Get(r.metadata, "doc_type", "unknown")
    IN  LabelOpen \o IntText(RankOf(j)) \o <<":", SP>> \o Chars(source)
            \o LabelSlash \o Chars(doc_type)
            \o LabelRelevance \o FloatText(r.similarity) \o <<"]", NL>>
            \o r.text

\* format_context(results)
format_context(found) ==
    IF found = <<>> THEN Sentinel
    ELSE Join([j \in 1..Len(found) |-> Block(j, found[j])], Delimiter)

----------------------------------------------------------------------------
(* Intent runs: a query is a run of up to MaxFragments fragments.          *)

\* most fragments a query is built from
MaxFragments == 3

QueryFragments ==
    {<<"V", "e", "g", "a", "n">>,
     <<"N", "U", "T">>,
     <<"B", "o", "o", "k">>,
     <<"s", "e", "a", "t">>,
     <<"O", "p", "e", "n">>,
     <<"o", "r", "d", "e", "r">>,
     <<"M", "e", "n", "u">>,
     <<"m", "i">>,
     <<"e">>,
     <<"r", "i", "b", "e", "y", "e">>,
     <<" ">>,
     <<"?">>}

RECURSIVE ExactFragments(_)
ExactFragments(n) ==
    IF n = 0 THEN {<<>>}
    ELSE {q \o f : q \in ExactFragments(n - 1), f \in QueryFragments}

Queries == UNION {ExactFragments(k) : k \in 0..MaxFragments}

InitIntent ==
    /\ query \in Queries
    /\ doc = NoDoc
    /\ Idle

\* detect_intent(query)
DetectIntent ==
    /\ pc = "ready"
    /\ args' = [fn |-> "detect_intent"]
    /\ intent' = detect_intent(query)
    /\ pc' = "done"
    /\ UNCHANGED <<doc, call, chunks, warned, query, stack, raw_chunks, deepest,
                   documents, raised, retrieval, dialogue>>

NextIntent == DetectIntent

SpecIntent == InitIntent /\ [][NextIntent]_vars

----------------------------------------------------------------------------
(* Retrieval runs: smart_retrieve against a small index.                   *)

\* most entries in the index
MaxEntries == 2
\* largest k
MaxK == 2

\* distances an entry may have: near; 1 - d just under 0.3 but rounding to
\* 0.3; 1 - d under 0.3 and rounding under it; farther than 1
DistanceList == <<12346, 70004, 70006, 130000>>
Distances == {DistanceList[j] : j \in 1..Len(DistanceList)}

\* the same distances in the opposite order: an embedding that disagrees
Mirror(d) ==
    DistanceList[Len(DistanceList) + 1
                    - CHOOSE j \in 1..Len(DistanceList) : DistanceList[j] = d]

IndexedTypes == {"menu_item", "faq_section", "restaurant_info"}

EntryText(j) == <<"t">> \o <<LowerCase[j]>>

Entry(j, doc_type, d, same_space) ==
    [text |-> EntryText(j),
     metadata |-> [doc_type |-> doc_type, source |-> "kb"],
     distance |-> d,
     text_distance |-> IF same_space THEN d ELSE Mirror(d)]

\* every index of exactly n entries, nearest first
RECURSIVE ExactEntries(_, _)
ExactEntries(n, same_space) ==
    IF n = 0 THEN {<<>>}
    ELSE {Append(c, Entry(n, t, d, same_space)) :
            c \in ExactEntries(n - 1, same_space),
            t \in IndexedTypes, d \in Distances}

Collections ==
    {c \in UNION {ExactEntries(n, b) : n \in 0..MaxEntries, b \in BOOLEAN} :
        \A j \in 1..(Len(c) - 1) : c[j].distance <= c[j + 1].distance}

\* one query for each intent
RetrieveQueries ==
    {<<"V", "e", "g", "a", "n">>,
     <<"o", "r", "d", "e", "r">>,
     <<"O", "p", "e", "n">>,
     <<"B", "o", "o", "k">>,
     <<"M", "e", "n", "u">>,
     <<"r", "i", "b", "e", "y", "e">>}

FilterError == "filter_error"
SearchError == "search_error"

\* a try block without a handler for the error
CatchesNothing(error) == FALSE

\* except Exception: the errors of a search are all caught
Catches(error) == error \in {FilterError, SearchError}

InitRetrieve ==
    /\ query \in RetrieveQueries
    /\ collection \in Collections
    /\ doc = NoDoc
    /\ documents = <<>>
    /\ results = <<>>
    /\ IdleCore

\* smart_retrieve(query, k); filter_ok and search_ok say whether the
\* filtered and the unfiltered search come back or raise
SmartRetrieve(k, filter_ok, search_ok) ==
    /\ pc = "ready"
    /\ LET found_intent == detect_intent(query)
           filters == Get(INTENT_FILTERS, found_intent, NoFilter)
           filtered == Sent("search_with_filter", query, ByText, k,
                            Where(filters), collection, filter_ok)
           plain == Sent("search", query, ByEmbedding, k, NoWhere,
                         collection, search_ok)
           use_filter == UsesFilter(filters)
           from_filter == use_filter /\ filter_ok
           escapes == use_filter /\ ~filter_ok /\ ~Catches(FilterError)
       IN  /\ intent' = found_intent
           /\ searches' = IF from_filter \/ escapes THEN <<filtered>>
                          ELSE IF use_filter THEN <<filtered, plain>>
                          ELSE <<plain>>
           /\ IF from_filter
              THEN /\ results' = Trim(search_with_filter(collection, filters, k))
                   /\ raised' = None
                   /\ pc' = "done"
              ELSE IF escapes
              THEN /\ results' = results
                   /\ raised' = FilterError
                   /\ pc' = "raised"
              ELSE IF search_ok
              THEN /\ results' = Trim(search(collection, k))
                   /\ raised' = None
                   /\ pc' = "done"
              ELSE /\ results' = results
                   /\ raised' = SearchError
                   /\ pc' = "raised"
    /\ args' = [fn |-> "smart_retrieve", k |-> k]
    /\ UNCHANGED <<doc, call, chunks, warned, query, stack, raw_chunks,
                   deepest, documents, collection, context, dialogue>>

NextRetrieve ==
    \E k \in 1..MaxK, filter_ok \in BOOLEAN, search_ok \in BOOLEAN :
        SmartRetrieve(k, filter_ok, search_ok)

SpecRetrieve == InitRetrieve /\ [][NextRetrieve]_vars

----------------------------------------------------------------------------
(* Formatting runs: format_context on lists of up to MaxResults results.   *)

\* longest list handed to format_context
MaxResults == 2

\* an empty text, a short one, and one that is the delimiter itself
ResultTexts == {<<>>, <<"x">>, Delimiter}

\* metadata without source and doc_type, with source only, with both
ResultMetas ==
    {EmptyMeta, [source |-> "kb"], [source |-> "kb", doc_type |-> "menu_item"]}

\* 0.3, 0.8765 and 1.0
ResultSimilarities == {SimilarityFloor, similarity(DistanceList[1]), One}

ResultChoices ==
    {[text |-> t, metadata |-> m, distance |-> One - x, similarity |-> x] :
        t \in ResultTexts, m \in ResultMetas, x \in ResultSimilarities}

ResultLists == UNION {[1..n -> ResultChoices] : n \in 0..MaxResults}

InitFormat ==
    /\ results \in ResultLists
    /\ doc = NoDoc
    /\ query = <<>>
    /\ documents = <<>>
    /\ collection = <<>>
    /\ IdleCore

\* format_context(results)
FormatContext ==
    /\ pc = "ready"
    /\ args' = [fn |-> "format_context"]
    /\ context' = format_context(results)
    /\ pc' = "done"
    /\ UNCHANGED <<doc, call, chunks, warned, query, intent, stack,
                   raw_chunks, deepest, documents, collection, searches,
                   results, raised, dialogue>>

NextFormat == FormatContext

SpecFormat == InitFormat /\ [][NextFormat]_vars

----------------------------------------------------------------------------
(* Master chunker runs: chunk_all_documents on up to MaxDocs documents.    *)

\* longest list of documents
MaxDocs == 2

\* all_chunks after the loop over the documents
RECURSIVE all_chunks(_)
all_chunks(docs) ==
    IF docs = <<>> THEN <<>>
    ELSE all_chunks(AllButLast(docs)) \o chunk_document(docs[Len(docs)])

\* min(token_counts) and max(token_counts) raise on an empty list
ValueError == "ValueError"
StatsRaise(token_counts) == token_counts = <<>>

\* documents that give one chunk, two chunks, or none
DocChoices ==
    {[page_content |-> t, metadata |-> m] :
        t \in {<<SP>>, ShortText, ChefText},
        m \in {EmptyMeta, [format |-> "qa_pair"], [doc_type |-> "chef_note"]}}

DocLists == UNION {[1..n -> DocChoices] : n \in 0..MaxDocs}

InitAll ==
    /\ documents \in DocLists
    /\ doc = NoDoc
    /\ query = <<>>
    /\ collection = <<>>
    /\ results = <<>>
    /\ IdleCore

\* chunk_all_documents(documents)
ChunkAllDocuments ==
    /\ pc = "ready"
    /\ args' = [fn |-> "chunk_all_documents"]
    /\ LET all == all_chunks(documents)
           token_counts == [j \in 1..Len(all) |-> all[j].token_count]
       IN  IF StatsRaise(token_counts)
           THEN /\ chunks' = chunks
                /\ raised' = ValueError
                /\ pc' = "raised"
           ELSE /\ chunks' = all
                /\ raised' = None
                /\ pc' = "done"
    /\ warned' = \E j \in 1..Len(documents) :
                    /\ Route(documents[j]).fn = "chunk_passthrough"
                    /\ PassthroughWarns(documents[j].page_content)
    /\ UNCHANGED <<doc, call, query, intent, stack, raw_chunks, deepest,
                   documents, retrieval, dialogue>>

NextAll == ChunkAllDocuments

SpecAll == InitAll /\ [][NextAll]_vars

----------------------------------------------------------------------------
(* chunk_recursive step by step: split's activation records are kept on a  *)
(* stack, one loop iteration or one call per step.                         *)

\* the activation record of split(text, sep_idx) before its first line
Frame(text, sep_idx) ==
    [text |-> text, sep_idx |-> sep_idx, at |-> "enter",
     items |-> <<>>, k |-> 1, result |-> <<>>, current |-> <<>>]

Top == stack[Len(stack)]
SetTop(f) == [stack EXCEPT ![Len(stack)] = f]

\* longest text of a step-by-step run
MaxSplitLen == 3

\* a letter and the three kinds of whitespace the separators and the word
\* split tell apart
SplitAlphabet == {"a", SP, NL, TAB}

InitSplit ==
    /\ doc \in {[page_content |-> t, metadata |-> EmptyMeta] :
                    t \in Texts(SplitAlphabet, MaxSplitLen)}
    /\ query = <<>>
    /\ Idle

\* chunk_recursive is called: raw_chunks = split(text)
StartSplit(chunk_size, overlap) ==
    /\ pc = "ready"
    /\ args' = CallRecursive(chunk_size, overlap)
    /\ call' = args'
    /\ stack' = <<Frame(doc.page_content, 0)>>
    /\ pc' = "split"
    /\ UNCHANGED <<doc, chunks, warned, query, intent, raw_chunks, deepest,
                   documents, raised, retrieval, dialogue>>

\* the first lines of split: the size test and the choice of the loop
SplitEnter ==
    /\ pc = "split" /\ Top.at = "enter"
    /\ LET fits == Fits(Top.text, args.chunk_size)
           long == Len(Top.text) > MaxText
           last == Top.sep_idx >= Len(separators)
       IN  /\ pc' = IF ~fits /\ long THEN "cut" ELSE pc
           /\ stack' =
                IF fits
                THEN SetTop([Top EXCEPT !.at = "return",
                                        !.result = <<Top.text>>])
                ELSE IF long THEN stack
                ELSE IF last
                THEN SetTop([Top EXCEPT !.at = "words",
                                        !.items = SplitWords(Top.text)])
                ELSE SetTop([Top EXCEPT !.at = "parts",
                                        !.items = SplitOn(Top.text,
                                            separators[Top.sep_idx + 1])])
    /\ deepest' = Max(deepest, Top.sep_idx)
    /\ UNCHANGED <<doc, args, call, chunks, warned, query, intent,
                   raw_chunks,
                   documents, raised, retrieval, dialogue>>

\* one iteration of "for word in words", or the lines after the loop
WordStep ==
    /\ pc = "split" /\ Top.at = "words"
    /\ IF Top.k <= Len(Top.items)
       THEN LET word == Top.items[Top.k]
                cur == Append(Top.current, word)
            IN  IF ~Fits(Join(cur, <<SP>>), args.chunk_size)
                THEN stack' = SetTop([Top EXCEPT
                        !.result = Append(@, Join(AllButLast(cur), <<SP>>)),
                        !.current = CarryWords(cur, word, args.overlap),
                        !.k = @ + 1])
                ELSE stack' = SetTop([Top EXCEPT !.current = cur,
                                                 !.k = @ + 1])
       ELSE stack' = SetTop([Top EXCEPT !.at = "return",
                !.result = IF Top.current # <<>>
                           THEN Append(@, Join(Top.current, <<SP>>))
                           ELSE @])
    /\ UNCHANGED <<doc, args, call, chunks, warned, query, intent,
                   raw_chunks, deepest, pc,
                   documents, raised, retrieval, dialogue>>

\* one iteration of "for part in parts", up to the recursive call
PartStep ==
    /\ pc = "split" /\ Top.at = "parts" /\ Top.k <= Len(Top.items)
    /\ LET sep == separators[Top.sep_idx + 1]
           part == Top.items[Top.k]
           candidate == IF Top.current # <<>>
                        THEN Top.current \o sep \o part
                        ELSE part
       IN  IF Fits(candidate, args.chunk_size)
           THEN stack' = SetTop([Top EXCEPT !.current = candidate,
                                            !.k = @ + 1])
           ELSE IF Top.current # <<>>
           THEN stack' = Append(SetTop([Top EXCEPT !.at = "call_sub"]),
                                Frame(Top.current, NextLevel(Top.sep_idx)))
           ELSE stack' = SetTop([Top EXCEPT !.current = part, !.k = @ + 1])
    /\ UNCHANGED <<doc, args, call, chunks, warned, query, intent,
                   raw_chunks, deepest, pc,
                   documents, raised, retrieval, dialogue>>

\* the lines after the loop over the parts: the last flush, or the filter
PartsEnd ==
    /\ pc = "split" /\ Top.at = "parts" /\ Top.k > Len(Top.items)
    /\ IF Top.current # <<>>
       THEN stack' = Append(SetTop([Top EXCEPT !.at = "call_last"]),
                            Frame(Top.current, NextLevel(Top.sep_idx)))
       ELSE stack' = SetTop([Top EXCEPT !.at = "return",
                                        !.result = DropBlank(@)])
    /\ UNCHANGED <<doc, args, call, chunks, warned, query, intent,
                   raw_chunks, deepest, pc,
                   documents, raised, retrieval, dialogue>>

\* a call of split returns: to the caller's loop, to the caller's last
\* lines, or to chunk_recursive
Return ==
    /\ pc = "split" /\ Top.at = "return"
    /\ LET sub == Top.result
           below == SubSeq(stack, 1, Len(stack) - 1)
       IN  IF below = <<>>
           THEN /\ raw_chunks' = sub
                /\ stack' = <<>>
                /\ pc' = "emit"
           ELSE LET caller == below[Len(below)]
                    sep == separators[caller.sep_idx + 1]
                    part == caller.items[caller.k]
                    overlap_text == OverlapText(sub, args.overlap)
                IN  /\ raw_chunks' = raw_chunks
                    /\ pc' = pc
                    /\ stack' =
                         [below EXCEPT ![Len(below)] =
                            IF caller.at = "call_sub"
                            THEN [caller EXCEPT
                                    !.at = "parts",
                                    !.result = @ \o sub,
                                    !.current = IF overlap_text # <<>>
                                                THEN overlap_text \o sep
                                                         \o part
                                                ELSE part,
                                    !.k = @ + 1]
                            ELSE [caller EXCEPT
                                    !.at = "return",
                                    !.result = DropBlank(@ \o sub)]]
    /\ UNCHANGED <<doc, args, call, chunks, warned, query, intent, deepest,
                   documents, raised, retrieval, dialogue>>

\* the loop over raw_chunks that builds the Chunk objects
Emit ==
    /\ pc = "emit"
    /\ chunks' = EmitRecursive(raw_chunks, doc.metadata,
                               args.chunk_size, args.overlap)
    /\ pc' = "done"
    /\ UNCHANGED <<doc, args, call, warned, query, intent, stack,
                   raw_chunks, deepest,
                   documents, raised, retrieval, dialogue>>

NextSplit ==
    \/ \E chunk_size \in 1..MaxChunk, overlap \in 0..MaxOverlap :
          StartSplit(chunk_size, overlap)
    \/ SplitEnter
    \/ WordStep
    \/ PartStep
    \/ PartsEnd
    \/ Return
    \/ Emit

\* the interpreter runs the call as long as it has a next step
SpecSplit == InitSplit /\ [][NextSplit]_vars /\ WF_vars(NextSplit)

----------------------------------------------------------------------------
(* Runs of both splitting chunkers, each on both families of texts.        *)

InitChunk == InitRecursive \/ InitWindow
NextChunk == NextRecursive \/ NextWindow
SpecChunk == InitChunk /\ [][NextChunk]_vars

----------------------------------------------------------------------------
(* src/retriever.py: smart_retrieve as a function of the query, the index  *)
(* and the outcome of each search.                                         *)

smart_retrieve(q, k, entries, filter_ok, search_ok) ==
    LET found_intent == detect_intent(q)
        filters == Get(INTENT_FILTERS, found_intent, NoFilter)
        filtered == Sent("search_with_filter", q, ByText, k,
                         Where(filters), entries, filter_ok)
        plain == Sent("search", q, ByEmbedding, k, NoWhere,
                      entries, search_ok)
        use_filter == UsesFilter(filters)
        from_filter == use_filter /\ filter_ok
        escapes == use_filter /\ ~filter_ok /\ ~Catches(FilterError)
    IN  [intent |-> found_intent,
         searches |-> IF from_filter \/ escapes THEN <<filtered>>
                      ELSE IF use_filter THEN <<filtered, plain>>
                      ELSE <<plain>>,
         results |-> IF from_filter
                     THEN Trim(search_with_filter(entries, filters, k))
                     ELSE IF escapes THEN <<>>
                     ELSE IF search_ok THEN Trim(search(entries, k))
                     ELSE <<>>,
         raised |-> IF from_filter THEN None
                    ELSE IF escapes THEN FilterError
                    ELSE IF search_ok THEN None
                    ELSE SearchError]

----------------------------------------------------------------------------
(* src/embedder.py: embed_and_store.                                       *)

\* f"chunk_{i:04d}"
ChunkId(i) ==
    LET digits == IntText(i)
    IN  <<"c", "h", "u", "n", "k", "_">>
            \o [j \in 1..(4 - Len(digits)) |-> "0"] \o digits

\* the metadata cleaning: a str, int, float or bool value is kept as it is,
\* and those are the only values the chunkers write
clean_meta(metadata) == [key \in DOMAIN metadata |-> metadata[key]]

\* the entries collection.add receives for the chunks: id, document and
\* metadata of each chunk; near[j] is the distance from the query to the
\* vector embed_text gave chunk j, far[j] the distance the collection's own
\* embedding of the query text gives
Stored(found, near, far) ==
    [j \in 1..Len(found) |->
        [id |-> ChunkId(j - 1),
         text |-> found[j].text,
         metadata |-> clean_meta(found[j].metadata),
         distance |-> near[j],
         text_distance |-> far[j]]]

----------------------------------------------------------------------------
(* src/rag_chain.py: build_prompt, call_llm, rag_chat, ChatSession.        *)

\* smart_retrieve(user_message, k=4, ...)
RagK == 4
\* conversation_history[-6:]
PromptTurns == 6
\* updated_history[-20:]
HistoryCap == 20

Turn(role, content) == [role |-> role, content |-> content]

\* "CONTEXT FROM KNOWLEDGE BASE:\n"
PromptHeader ==
    <<"C", "O", "N", "T", "E", "X", "T", SP, "F", "R", "O", "M", SP, "K",
      "N", "O", "W", "L", "E", "D", "G", "E", SP, "B", "A", "S", "E", ":",
      NL>>

\* "\n\n---\nCUSTOMER MESSAGE: "
PromptCustomer ==
    <<NL, NL, "-", "-", "-", NL, "C", "U", "S", "T", "O", "M", "E", "R", SP,
      "M", "E", "S", "S", "A", "G", "E", ":", SP>>

\* "\n\nAnswer the customer using ONLY the context above."
PromptFooter ==
    <<NL, NL, "A", "n", "s", "w", "e", "r", SP, "t", "h", "e", SP, "c", "u",
      "s", "t", "o", "m", "e", "r", SP, "u", "s", "i", "n", "g", SP, "O",
      "N", "L", "Y", SP, "t", "h", "e", SP, "c", "o", "n", "t", "e", "x",
      "t", SP, "a", "b", "o", "v", "e", ".">>

\* the f-string of build_prompt
current_message(user_message, text) ==
    PromptHeader \o text \o PromptCustomer \o user_message \o PromptFooter

\* build_prompt(user_message, context, conversation_history)
build_prompt(user_message, text, conversation_history) ==
    LastN(conversation_history, PromptTurns)
        \o <<Turn("user", current_message(user_message, text))>>

\* what call_llm hands the model: the turns before the last with the
\* assistant's role renamed, and the content of the last
LlmHistory(prompt) ==
    [j \in 1..(Len(prompt) - 1) |->
        [role |-> IF prompt[j].role = "assistant" THEN "model" ELSE "user",
         parts |-> <<prompt[j].content>>]]

\* call_llm returns response.text.strip() of the text the model sends back
call_llm(text) == strip(text)

LlmError == "llm_error"

\* what the outside does during one rag_chat: whether each search comes
\* back, whether the model answers, and the text it sends
Outside(filter_ok, search_ok, llm_ok, text) ==
    [filter_ok |-> filter_ok, search_ok |-> search_ok, llm_ok |-> llm_ok,
     text |-> text]

\* rag_chat(user_message, conversation_history): what it computed on the
\* way, what it returned, and the exception that left it, if any
rag_chat(user_message, conversation_history, entries, env) ==
    LET got == smart_retrieve(user_message, RagK, entries,
                              env.filter_ok, env.search_ok)
        retrieved == got.raised = None
        answered == retrieved /\ env.llm_ok
        found_context == IF retrieved THEN format_context(got.results)
                         ELSE <<>>
        prompt == IF retrieved
                  THEN build_prompt(user_message, found_context,
                                    conversation_history)
                  ELSE <<>>
        answer == IF answered THEN call_llm(env.text) ELSE <<>>
    IN  [intent |-> got.intent,
         searches |-> got.searches,
         results |-> got.results,
         context |-> found_context,
         messages |-> prompt,
         response |-> answer,
         updated_history |->
            IF answered
            THEN conversation_history
                    \o <<Turn("user", user_message),
                         Turn("assistant", answer)>>
            ELSE <<>>,
         raised |-> IF ~retrieved THEN got.raised
                    ELSE IF ~env.llm_ok THEN LlmError
                    ELSE None]

----------------------------------------------------------------------------
(* Context runs: a chef's note is chunked by sentence window, stored in    *)
(* the index, and a customer message is answered from the index.           *)

NoteMeta == [source |-> "pdf", doc_type |-> "chef_note"]

\* a note of n sentences, each long enough to be kept
RECURSIVE NoteText(_)
NoteText(n) ==
    IF n = 0 THEN <<>>
    ELSE NoteText(n - 1)
            \o Piece(n, MinSentenceChars + 1,
                     PieceStops[((n - 1) % Len(PieceStops)) + 1])

\* distances from the query to a stored chunk: near, and under the floor
NoteDistances == {DistanceList[1], DistanceList[3]}

\* an index that was filled before
OldIndex ==
    <<[id |-> ChunkId(0),
       text |-> <<"o", "l", "d">>,
       metadata |-> [source |-> "kb", doc_type |-> "menu_item"],
       distance |-> DistanceList[1],
       text_distance |-> DistanceList[1]]>>

\* the texts the model may send back
LlmTexts == {<<SP, "o", "k", NL>>, <<>>}

InitContext ==
    /\ doc \in {[page_content |-> NoteText(n), metadata |-> NoteMeta] :
                    n \in 1..MaxSentences}
    /\ query \in RetrieveQueries
    /\ IdleCore
    /\ documents = <<>>
    /\ collection \in {<<>>, OldIndex}
    /\ results = <<>>

\* embed_and_store(chunks) for a non-empty list of chunks: an index that
\* holds entries is left alone, an empty one receives the chunks
EmbedAndStore(near, same_space) ==
    /\ pc = "done"
    /\ args.fn = "chunk_sentence_window"
    /\ chunks # <<>>
    /\ collection' =
          IF Len(collection) > 0 THEN collection
          ELSE Stored(chunks, near,
                      [j \in 1..Len(chunks) |->
                          IF same_space THEN near[j] ELSE Mirror(near[j])])
    /\ args' = [fn |-> "embed_and_store"]
    /\ pc' = "stored"
    /\ UNCHANGED <<doc, call, chunks, warned, query, intent, stack,
                   raw_chunks, deepest, documents, searches, results,
                   raised, context, dialogue>>

\* rag_chat(query, []) against the index
RagChat(filter_ok, search_ok, llm_ok, text) ==
    /\ pc = "stored"
    /\ \E out \in {rag_chat(query, <<>>, collection,
                           Outside(filter_ok, search_ok, llm_ok, text))} :
           /\ intent' = out.intent
           /\ searches' = out.searches
           /\ results' = out.results
           /\ context' = out.context
           /\ messages' = out.messages
           /\ reply' = out.response
           /\ raised' = out.raised
           /\ pc' = IF out.raised = None THEN "done" ELSE "raised"
    /\ args' = [fn |-> "rag_chat"]
    /\ UNCHANGED <<doc, call, chunks, warned, query, stack, raw_chunks,
                   deepest, documents, collection, sessions, turn>>

NextContext ==
    \/ \E window_size \in 0..MaxWindow : ChunkSentenceWindow(window_size)
    \/ \E near \in [1..Len(chunks) -> NoteDistances], same_space \in BOOLEAN :
          EmbedAndStore(near, same_space)
    \/ \E filter_ok \in BOOLEAN, search_ok \in BOOLEAN, llm_ok \in BOOLEAN,
          text \in LlmTexts :
          RagChat(filter_ok, search_ok, llm_ok, text)

SpecContext == InitContext /\ [][NextContext]_vars

----------------------------------------------------------------------------

(* Conversation runs: ChatSession.chat and ChatSession.reset called for    *)
(* two users, in any order, against a filled index.  A run starts when the *)
(* first user has had WarmTurns messages answered and the second user has  *)
(* not written yet.                                                        *)

\* messages of the first user answered before the run
WarmTurns == 9
\* most messages answered in a run, all users together
MaxTurns == 4

Users == {"+1", "+2"}

\* the letter a user signs with
Sign(user_id) == IF user_id = "+1" THEN <<"A">> ELSE <<"B">>

\* the n-th message a user sends: a question about the menu or about a
\* dish, signed and numbered, so that no two messages are the same
Message(user_id, n) ==
    (IF n % 2 = 1 THEN <<"M", "e", "n", "u">>
     ELSE <<"r", "i", "b", "e", "y", "e">>)
        \o <<SP>> \o Sign(user_id) \o IntText(n)

\* the text the model sends back to a user's n-th message
Answer(user_id, n) ==
    <<SP, "o", "k", SP>> \o Sign(user_id) \o IntText(n) \o <<NL>>

\* "Chat reset! Hi again, I'm Ember (fire) How can I help you?"; the
\* emoji is one character
Fire == "(fire)"
ResetText ==
    <<"C", "h", "a", "t", SP, "r", "e", "s", "e", "t", "!", SP, "H", "i",
      SP, "a", "g", "a", "i", "n", ",", SP, "I", "'", "m", SP, "E", "m",
      "b", "e", "r", SP, Fire, SP, "H", "o", "w", SP, "c", "a", "n", SP,
      "I", SP, "h", "e", "l", "p", SP, "y", "o", "u", "?">>

\* self.sessions[user_id] = history
Put(store, user_id, history) ==
    Merge(store, [u \in {user_id} |-> history])

\* variant: self.sessions.setdefault(user_id, [])
AfterSetdefault(store, user_id) ==
    IF user_id \in DOMAIN store THEN store ELSE Put(store, user_id, <<>>)

\* the store after self.sessions.get(user_id, []): a lookup writes nothing
AfterGet(store, user_id) == store

\* variant: the history is stored whole
KeptWhole(history) == history

\* variant: the cap is an odd number of messages
KeptOdd(history) == LastN(history, HistoryCap - 1)

\* updated_history[-20:]
Kept(history) == LastN(history, HistoryCap)

\* the history chat has stored for a user after their first n messages
\* were answered, none of them failing and no reset in between
RECURSIVE Replay(_, _)
Replay(user_id, n) ==
    IF n = 0 THEN <<>>
    ELSE Kept(Replay(user_id, n - 1)
                \o <<Turn("user", Message(user_id, n)),
                     Turn("assistant", call_llm(Answer(user_id, n)))>>)

InitChat ==
    /\ doc = NoDoc
    /\ args = NoArgs
    /\ call = NoCall
    /\ chunks = <<>>
    /\ warned = FALSE
    /\ query = <<>>
    /\ intent = None
    /\ stack = <<>>
    /\ raw_chunks = <<>>
    /\ deepest = 0
    /\ documents = <<>>
    /\ collection = OldIndex
    /\ searches = <<>>
    /\ results = <<>>
    /\ raised = None
    /\ context = <<>>
    /\ sessions = Put(NoSessions, "+1", Replay("+1", WarmTurns))
    /\ turn = [u \in Users |-> IF u = "+1" THEN WarmTurns ELSE 0]
    /\ messages = <<>>
    /\ reply = <<>>
    /\ pc = "serving"

\* the messages answered in the run so far, all users together
Answered == turn["+1"] + turn["+2"] - WarmTurns

\* ChatSession.chat(user_id, message) with the user's next message
Chat(user_id, filter_ok, search_ok, llm_ok) ==
    /\ pc = "serving"
    /\ Answered < MaxTurns
    /\ \E out \in {rag_chat(Message(user_id, turn[user_id] + 1),
                             Get(sessions, user_id, <<>>), collection,
                             Outside(filter_ok, search_ok, llm_ok,
                                     Answer(user_id, turn[user_id] + 1)))} :
       LET n == turn[user_id] + 1
           message == Message(user_id, n)
           looked == AfterGet(sessions, user_id)
           ok == out.raised = None
       IN  /\ sessions' = IF ok
                          THEN Put(looked, user_id, Kept(out.updated_history))
                          ELSE looked
           /\ turn' = IF ok THEN [turn EXCEPT ![user_id] = n] ELSE turn
           /\ query' = message
           /\ intent' = out.intent
           /\ searches' = out.searches
           /\ results' = out.results
           /\ context' = out.context
           /\ messages' = out.messages
           /\ reply' = out.response
           /\ raised' = out.raised
    /\ args' = [fn |-> "chat", user_id |-> user_id]
    /\ UNCHANGED <<doc, call, chunks, warned, stack, raw_chunks, deepest,
                   documents, collection, pc>>

\* ChatSession.reset(user_id)
Reset(user_id) ==
    /\ pc = "serving"
    /\ sessions' = Put(sessions, user_id, <<>>)
    /\ reply' = ResetText
    /\ raised' = None
    /\ args' = [fn |-> "reset", user_id |-> user_id]
    /\ UNCHANGED <<doc, call, chunks, warned, query, intent, stack,
                   raw_chunks, deepest, documents, retrieval, turn,
                   messages, pc>>

NextChat ==
    \/ \E user_id \in Users, filter_ok \in BOOLEAN, search_ok \in BOOLEAN,
          llm_ok \in BOOLEAN :
          Chat(user_id, filter_ok, search_ok, llm_ok)
    \/ \E user_id \in Users : Reset(user_id)

SpecChat == InitChat /\ [][NextChat]_vars

----------------------------------------------------------------------------

(* Properties.                                                             *)

Returned == pc = "done"
Ran(fn) == Returned /\ call.fn = fn
Meta(i) == chunks[i].metadata
ChunkTexts == [i \in 1..Len(chunks) |-> chunks[i].text]
WordCount(text) == Len(SplitWords(text))
HasTag(key) == key \in DOMAIN doc.metadata

\* the routing table as a list of rules: rule r applies to the tags
RuleApplies(r, fmt, doc_type) ==
    CASE r = 1 -> fmt \in {"table_row", "excel_row", "key_value_table",
                           "qa_pair", "inline_structured"}
      [] r = 2 -> fmt = "plain_text"
      [] r = 3 -> doc_type = "chef_note"
      [] r = 4 -> fmt = "html_parsed"
      [] r = 5 -> fmt = "text"
      [] r = 6 -> TRUE
RuleCall(r) ==
    CASE r = 1 -> [fn |-> "chunk_passthrough"]
      [] r = 2 -> [fn |-> "chunk_passthrough"]
      [] r = 3 -> [fn |-> "chunk_sentence_window", window_size |-> 2]
      [] r = 4 -> [fn |-> "chunk_recursive", chunk_size |-> 300,
                   overlap |-> 50]
      [] r = 5 -> [fn |-> "chunk_recursive", chunk_size |-> 350,
                   overlap |-> 60]
      [] r = 6 -> [fn |-> "chunk_recursive", chunk_size |-> 300,
                   overlap |-> 50]
FirstRule(fmt, doc_type) ==
    CHOOSE r \in 1..6 :
        /\ RuleApplies(r, fmt, doc_type)
        /\ \A q \in 1..(r - 1) : ~RuleApplies(q, fmt, doc_type)

\* C1: chunk_document makes the strategy call of the first rule, in the
\* fixed order of the six rules, that applies to the document's format and
\* doc_type tags (a missing tag reads as the empty string), and it returns
\* for every combination of tags.
C1_RoutingOrder ==
    (pc # "ready" /\ args.fn = "chunk_document") =>
        /\ call = RuleCall(FirstRule(Get(doc.metadata, "format", ""),
                                     Get(doc.metadata, "doc_type", "")))
        /\ Returned =>
             \A i \in 1..Len(chunks) :
                Meta(i).chunk_strategy =
                    CASE call.fn = "chunk_passthrough" -> "passthrough"
                      [] call.fn = "chunk_sentence_window" -> "sentence_window"
                      [] call.fn = "chunk_recursive" -> "recursive"

\* a chef note tagged html_parsed went to the sentence window, and a
\* document without tags was chunked too
C1_Witness ==
    /\ Returned
    /\ args.fn = "chunk_document"
    /\ HasTag("format") /\ doc.metadata.format = "html_parsed"
    /\ HasTag("doc_type") /\ doc.metadata.doc_type = "chef_note"
    /\ call.fn = "chunk_sentence_window"
    /\ Len(chunks) = 2

\* C2: every chunk chunk_document returns carries chunk_index, chunk_total
\* and chunk_strategy, and chunk_total is the number of chunks returned.
C2_MetadataKeys ==
    (Returned /\ args.fn = "chunk_document") =>
        \A i \in 1..Len(chunks) :
            /\ {K_index, K_total, K_strategy} \subseteq DOMAIN Meta(i)
            /\ Meta(i)[K_total] = Len(chunks)

\* C3: the chunks of chunk_recursive and of chunk_sentence_window are
\* numbered 0, 1, ..., n-1 in the order returned and each carries
\* chunk_total = n, the number returned, whatever the document's own
\* metadata holds under these keys.
C3_ContiguousIndex ==
    (Ran("chunk_recursive") \/ Ran("chunk_sentence_window")) =>
        \A i \in 1..Len(chunks) :
            /\ Meta(i)[K_index] = i - 1
            /\ Meta(i)[K_total] = Len(chunks)

\* chunk_recursive returned several chunks for a document whose metadata
\* already held chunk_index and chunk_total
C3_Witness ==
    /\ Ran("chunk_recursive")
    /\ Len(chunks) >= 3
    /\ HasTag(K_index) /\ HasTag(K_total)
    /\ doc.metadata[K_total] # Len(chunks)

\* C4: every chunk of chunk_recursive has at most chunk_size tokens, unless
\* it is a single word that itself exceeds chunk_size.
C4_TokenCap ==
    Ran("chunk_recursive") =>
        \A i \in 1..Len(chunks) :
            \/ /\ chunks[i].token_count <= args.chunk_size
               /\ count_tokens(chunks[i].text) <= args.chunk_size
            \/ WordCount(chunks[i].text) = 1

\* C5 as stated: a text of at most chunk_size tokens, the empty and the
\* whitespace-only text included, comes back as exactly one chunk, the
\* trimmed text.
C5_OneChunkAlways ==
    (Ran("chunk_recursive")
        /\ count_tokens(doc.page_content) <= args.chunk_size) =>
        /\ Len(chunks) = 1
        /\ chunks[1].text = strip(doc.page_content)

\* C5 amended: a text of at most chunk_size tokens that holds a character
\* other than whitespace comes back as exactly one chunk, the trimmed
\* text; an empty or whitespace-only text comes back as no chunk at all.
C5_OneChunkUnlessBlank ==
    (Ran("chunk_recursive")
        /\ count_tokens(doc.page_content) <= args.chunk_size) =>
        IF strip(doc.page_content) = <<>>
        THEN chunks = <<>>
        ELSE /\ Len(chunks) = 1
             /\ chunks[1].text = strip(doc.page_content)

\* a fitting text with whitespace around it came back trimmed
C5_Witness ==
    /\ Ran("chunk_recursive")
    /\ count_tokens(doc.page_content) = args.chunk_size
    /\ strip(doc.page_content) # doc.page_content
    /\ Len(chunks) = 1
    /\ WordCount(chunks[1].text) = 2

\* C7: chunk_passthrough returns exactly one chunk, its text the document
\* content unaltered, its token_count the token count of that text; above
\* 500 tokens it warns and returns the chunk all the same.
C7_Passthrough ==
    Ran("chunk_passthrough") =>
        /\ Len(chunks) = 1
        /\ chunks[1].text = doc.page_content
        /\ chunks[1].token_count = count_tokens(doc.page_content)
        /\ warned <=> (count_tokens(doc.page_content) > 500)

\* a document of more than 500 tokens was passed through with a warning
C7_Witness ==
    /\ Ran("chunk_passthrough")
    /\ args.fn = "chunk_passthrough"
    /\ warned
    /\ Len(chunks) = 1
    /\ Len(chunks[1].text) = 501

\* the sentences of a text: the pieces between sentence ends, trimmed
TrimmedPieces(text) ==
    LET pieces == RegexSplit(text)
    IN  [i \in 1..Len(pieces) |-> strip(pieces[i])]

\* C8: chunk_sentence_window returns one chunk per retained sentence;
\* chunk i (0-based) has retained sentence i as its text and, as its
\* window_text, the retained sentences max(0, i-W) .. min(N, i+W+1) - 1
\* joined in order.
C8_Window ==
    Ran("chunk_sentence_window") =>
        LET R == Sentences(doc.page_content)
            N == Len(R)
            W == args.window_size
        IN  /\ Len(chunks) = N
            /\ \A i \in 0..(N - 1) :
                 LET lo == IF i - W > 0 THEN i - W ELSE 0
                     hi == IF i + W + 1 < N THEN i + W + 1 ELSE N
                 IN  /\ chunks[i + 1].text = R[i + 1]
                     /\ lo <= i /\ i < hi
                     /\ Meta(i + 1).window_text =
                            Join([k \in 1..(hi - lo) |-> R[lo + k]], <<SP>>)
                     /\ Meta(i + 1).window_size = W

\* two sentences were retained around a discarded one, and the window of
\* the first reaches over to the second
C8_Witness ==
    /\ Ran("chunk_sentence_window")
    /\ args.window_size = 1
    /\ Len(chunks) = 2
    /\ Len(RegexSplit(doc.page_content)) = 4
    /\ Len(strip(RegexSplit(doc.page_content)[2])) = 3
    /\ Len(Meta(1).window_text) > Len(chunks[1].text)

\* C9 as stated: a sentence is retained, with a chunk of its own, exactly
\* when its trimmed length is 20 or more.
C9_Keeps20 ==
    Ran("chunk_sentence_window") =>
        ChunkTexts = SelectSeq(TrimmedPieces(doc.page_content),
                               LAMBDA p : Len(p) >= 20)

\* C9 amended: a sentence is retained, with a chunk of its own, exactly
\* when its trimmed length is 21 or more; one of 20 or fewer is dropped.
C9_Keeps21 ==
    Ran("chunk_sentence_window") =>
        ChunkTexts = SelectSeq(TrimmedPieces(doc.page_content),
                               LAMBDA p : Len(p) >= 21)

\* a text with a sentence of 20 characters and one of 21 was chunked
C9_Witness ==
    /\ Ran("chunk_sentence_window")
    /\ \E i, j \in 1..Len(TrimmedPieces(doc.page_content)) :
          /\ Len(TrimmedPieces(doc.page_content)[i]) = 20
          /\ Len(TrimmedPieces(doc.page_content)[j]) = 21
    /\ Len(chunks) = 1

\* the categories in their declared order, and the keywords of each
Categories == <<"dietary", "ordering", "hours", "booking", "menu_item">>
CategoryWords(c) ==
    CASE c = "dietary" -> DietaryWords
      [] c = "ordering" -> OrderingWords
      [] c = "hours" -> HoursWords
      [] c = "booking" -> BookingWords
      [] c = "menu_item" -> MenuItemWords
Mentions(c, q) == \E w \in CategoryWords(c) : Contains(q, w)

\* C10: detect_intent returns the first category, in the order dietary,
\* ordering, hours, booking, menu_item, one of whose keywords occurs in the
\* lowercased query, and general exactly when none occurs; a query with a
\* dietary and a booking keyword yields dietary.
C10_FirstCategory ==
    (Returned /\ args.fn = "detect_intent") =>
        LET q == lower(query)
            hits == {k \in 1..Len(Categories) : Mentions(Categories[k], q)}
        IN  /\ intent \in {Categories[k] : k \in 1..Len(Categories)}
                            \cup {"general"}
            /\ (intent = "general") <=> (hits = {})
            /\ hits # {} =>
                 intent = Categories[CHOOSE k \in hits :
                                        \A h \in hits : k <= h]
            /\ (Mentions("dietary", q) /\ Mentions("booking", q)) =>
                 intent = "dietary"

\* a query with a booking keyword before a capitalised dietary keyword
\* was classified
C10_Witness ==
    /\ Returned /\ args.fn = "detect_intent"
    /\ intent = "dietary"
    /\ Mentions("booking", lower(query))
    /\ ~Mentions("dietary", query)
    /\ Mentions("booking", query)

\* how far the run as a whole has got
PcRank ==
    CASE pc = "ready" -> 3
      [] pc = "split" -> 2
      [] pc = "emit"  -> 1
      [] OTHER        -> 0

\* how far one call of split has got: its phase, then the iterations left
FrameRank(f) ==
    CASE f.at = "enter"     -> <<3, 0>>
      [] f.at = "parts"     -> <<2, 2 * (Len(f.items) + 1 - f.k) + 1>>
      [] f.at = "call_sub"  -> <<2, 2 * (Len(f.items) + 1 - f.k)>>
      [] f.at = "words"     -> <<2, Len(f.items) + 2 - f.k>>
      [] f.at = "call_last" -> <<1, 0>>
      [] OTHER              -> <<0, 1>>

LevelRank(i) == IF i <= Len(stack) THEN FrameRank(stack[i]) ELSE <<0, 0>>

RECURSIVE LevelRanks(_)
LevelRanks(i) ==
    IF i > Len(separators) + 1 THEN <<>> ELSE LevelRank(i) \o LevelRanks(i + 1)

\* the run's rank: outermost call first, one pair for each separator level
Variant == <<PcRank>> \o LevelRanks(1)

\* lexicographic order on tuples of naturals of one length
LexLess(a, b) ==
    \E i \in 1..Len(a) :
        /\ a[i] < b[i]
        /\ \A j \in 1..(i - 1) : a[j] = b[j]

\* every call on the stack is at a strictly finer level than its caller
FinerLevels ==
    /\ \A i \in 1..Len(stack) : stack[i].sep_idx \in 0..Len(separators)
    /\ \A i \in 1..(Len(stack) - 1) : stack[i + 1].sep_idx > stack[i].sep_idx

\* a step of the word loop takes the next word, or leaves the loop after
\* the last one
OnePassOverWords ==
    (pc = "split" /\ Top.at = "words") =>
        /\ pc' = "split"
        /\ Len(stack') = Len(stack)
        /\ LET after == stack'[Len(stack)]
           IN  \/ /\ after.at = "words"
                  /\ after.items = Top.items
                  /\ after.k = Top.k + 1
                  /\ Top.k <= Len(Top.items)
               \/ /\ after.at = "return"
                  /\ Top.k = Len(Top.items) + 1

\* C6: chunk_recursive terminates for every text, chunk_size >= 1 and
\* overlap >= 0: every call of split is at a strictly finer separator level
\* than its caller, the hard split makes one pass over the words, every step
\* of the run lowers a rank that cannot fall for ever, and every run gets to
\* its end (or to the size the exploration stops at).
C6_Terminates ==
    /\ [][FinerLevels' /\ OnePassOverWords /\ LexLess(Variant', Variant)]_vars
    /\ <>(pc = "done" \/ pc = "cut")

\* a run that went down to the word-level hard split and returned several
\* chunks
C6_Witness ==
    /\ Ran("chunk_recursive")
    /\ deepest = Len(separators)
    /\ Len(raw_chunks) >= 2
    /\ Len(chunks) >= 2

\* smart_retrieve has run, to a return or to an exception
Retrieved == args.fn = "smart_retrieve" /\ pc \in {"done", "raised"}

\* smart_retrieve has returned a list
RetrieveReturned == args.fn = "smart_retrieve" /\ pc = "done"

FirstSearch == searches[1]
LastSearch == searches[Len(searches)]

\* C11: for every intent but general the first search smart_retrieve sends
\* the index carries the filter INTENT_FILTERS gives the intent, the
\* set-membership filters of hours and booking included; for general the
\* first search has no filter.
C11_FilteredFirst ==
    Retrieved =>
        IF intent = "general"
        THEN FirstSearch.where = NoWhere
        ELSE /\ INTENT_FILTERS[intent] # NoFilter
             /\ FirstSearch.where.conditions = INTENT_FILTERS[intent]

\* the filtered search was sent and raised
FilterFailed ==
    /\ Retrieved
    /\ FirstSearch.fn = "search_with_filter"
    /\ ~FirstSearch.ok

\* C12: when the filtered search raises, smart_retrieve sends one unfiltered
\* search with the same query and the same k and, that search coming back,
\* returns its results trimmed at the floor; the filtered search's error
\* never leaves smart_retrieve.
C12_Fallback ==
    FilterFailed =>
        /\ Len(searches) = 2
        /\ LastSearch.fn = "search"
        /\ LastSearch.where = NoWhere
        /\ LastSearch.query = FirstSearch.query
        /\ LastSearch.query = query
        /\ LastSearch.k = FirstSearch.k
        /\ LastSearch.k = args.k
        /\ raised # FilterError
        /\ LastSearch.ok =>
             /\ pc = "done"
             /\ raised = None
             /\ results = SelectSeq(ToResults(LastSearch.response),
                              LAMBDA r : r.similarity >= SimilarityFloor)

\* the filtered search raised, the unfiltered one brought two entries, and
\* the floor took one of them away
C12_Witness ==
    /\ FilterFailed
    /\ LastSearch.ok
    /\ Len(LastSearch.response.documents) = 2
    /\ Len(results) = 1

\* the search that supplied the returned list
Supplier == LastSearch

\* which of the three paths a returned list came by
Path ==
    IF Supplier.fn = "search_with_filter" THEN "filtered"
    ELSE IF Len(searches) = 2 THEN "fallback"
    ELSE "unfiltered"

\* C13: no result smart_retrieve returns has a similarity under 0.3, by
\* whichever path the list came (filtered search, fallback after a filter
\* error, unfiltered search); when the floor leaves nothing, the empty list
\* is returned and nothing is raised.
C13_Floor ==
    /\ RetrieveReturned =>
         \A j \in 1..Len(results) : results[j].similarity >= SimilarityFloor
    /\ (Retrieved /\ Supplier.ok) =>
         /\ pc = "done"
         /\ raised = None
         /\ (\A j \in 1..Len(Supplier.response.distances) :
                similarity(Supplier.response.distances[j]) < SimilarityFloor)
              => results = <<>>

\* the fallback search brought entries, all of them under the floor: the
\* empty list is returned
C13_Witness ==
    /\ RetrieveReturned
    /\ Path = "fallback"
    /\ Len(Supplier.response.documents) = 2
    /\ results = <<>>

\* the positions of the supplier's response the floor lets through, going by
\* the measure keep
KeptBy(keep(_)) ==
    {j \in 1..Len(Supplier.response.distances) :
        keep(Supplier.response.distances[j]) >= SimilarityFloor}

\* C14 as stated: a result's similarity is exactly 1 - distance, and a
\* result is kept exactly when 1 - distance >= 0.3.
C14_Exact ==
    RetrieveReturned =>
        /\ \A j \in 1..Len(results) :
              results[j].similarity = One - results[j].distance
        /\ Len(results) = Cardinality(KeptBy(similarity_exact))

\* C14 as the code has it: a result's similarity is 1 - distance rounded to
\* four decimal places (a multiple of 0.0001 at most 0.00005 away from
\* 1 - distance), and a result is kept exactly when that rounded value is
\* at least 0.3.
C14_Rounded ==
    RetrieveReturned =>
        /\ \A j \in 1..Len(results) :
              /\ results[j].similarity % FourthPlace = 0
              /\ 2 * Abs(results[j].similarity - (One - results[j].distance))
                    <= FourthPlace
        /\ Len(results) = Cardinality(KeptBy(LAMBDA d : round4(One - d)))
        /\ \A j \in 1..Len(Supplier.response.distances) :
              (\E h \in 1..Len(results) :
                    results[h].text = Supplier.response.documents[j])
                <=> j \in KeptBy(LAMBDA d : round4(One - d))

\* a returned result whose 1 - distance is under 0.3 and whose similarity
\* is 0.3
C14_Witness ==
    /\ RetrieveReturned
    /\ \E j \in 1..Len(results) :
          /\ One - results[j].distance < SimilarityFloor
          /\ results[j].similarity = SimilarityFloor

\* where in the supplier's response a returned result stands
Pos(h) ==
    CHOOSE j \in 1..Len(Supplier.response.documents) :
        Supplier.response.documents[j] = results[h].text

\* C15: the list smart_retrieve returns is a subsequence of the ranked
\* response of the search that supplied it: every result is an item of the
\* response, the results stand in the response's order (ascending distance),
\* none occurs twice, and there are at most k.
C15_Subsequence ==
    RetrieveReturned =>
        /\ Len(results) <= args.k
        /\ Len(results) <= Len(Supplier.response.documents)
        /\ \A h \in 1..Len(results) :
              /\ \E j \in 1..Len(Supplier.response.documents) :
                    Supplier.response.documents[j] = results[h].text
              /\ results[h].metadata = Supplier.response.metadatas[Pos(h)]
              /\ results[h].distance = Supplier.response.distances[Pos(h)]
        /\ \A h \in 1..(Len(results) - 1) :
              /\ Pos(h) < Pos(h + 1)
              /\ results[h].distance <= results[h + 1].distance

\* two results from the filtered search, at different distances, in an
\* order that is not the order of the collection
C15_Witness ==
    /\ RetrieveReturned
    /\ Path = "filtered"
    /\ Len(results) = 2
    /\ results[1].distance < results[2].distance
    /\ results[1].text = collection[2].text

\* format_context has returned
Formatted == args.fn = "format_context" /\ pc = "done"

\* C16: format_context never returns the empty string: for the empty list
\* it returns the sentinel sentence, and for a non-empty list a non-empty
\* text, also when a result's text is empty or its metadata has neither
\* source nor doc_type.
C16_NeverEmpty ==
    Formatted =>
        /\ context # <<>>
        /\ Len(context) > 0
        /\ results = <<>> =>
              /\ context = Sentinel
              /\ SubSeq(context, 1, 2) = <<"N", "o">>
              /\ context[Len(context)] = "."
        /\ results # <<>> => Len(context) > Len(LabelOpen)

\* one result with an empty text and an empty metadata dict was formatted
C16_Witness ==
    /\ Formatted
    /\ Len(results) = 1
    /\ results[1].text = <<>>
    /\ DOMAIN results[1].metadata = {}
    /\ context # <<>>

\* block j as the claim describes it: the label with rank j, source,
\* doc_type and similarity, then the text
Rendered(j) ==
    LabelOpen \o IntText(j) \o <<":", SP>>
        \o Chars(Get(results[j].metadata, "source", "unknown"))
        \o LabelSlash
        \o Chars(Get(results[j].metadata, "doc_type", "unknown"))
        \o LabelRelevance \o FloatText(results[j].similarity) \o <<"]", NL>>
        \o results[j].text

\* where block j starts in the context
RECURSIVE BlockStart(_)
BlockStart(j) ==
    IF j = 1 THEN 1
    ELSE BlockStart(j - 1) + Len(Rendered(j - 1)) + Len(Delimiter)

\* C17: for a list of n >= 1 results format_context renders n blocks in
\* input order, block j labelled with rank j (from 1) and carrying result
\* j's source, doc_type, similarity and text, consecutive blocks joined by
\* the one delimiter.
C17_Blocks ==
    (Formatted /\ results # <<>>) =>
        LET n == Len(results)
        IN  /\ \A j \in 1..n : OccursAt(context, Rendered(j), BlockStart(j))
            /\ \A j \in 1..(n - 1) :
                  OccursAt(context, Delimiter,
                           BlockStart(j) + Len(Rendered(j)))
            /\ Len(context) = BlockStart(n) + Len(Rendered(n)) - 1

\* two different results were formatted into two blocks
C17_Witness ==
    /\ Formatted
    /\ Len(results) = 2
    /\ results[1].similarity # results[2].similarity
    /\ results[1].metadata # results[2].metadata
    /\ results[1].text # results[2].text
    /\ Contains(context, Delimiter)

\* chunk_all_documents has run, to a return or to an exception
ChunkedAll == args.fn = "chunk_all_documents" /\ pc \in {"done", "raised"}

\* the chunks of the documents, each chunked on its own, one after another
RECURSIVE Flat(_)
Flat(docs) ==
    IF docs = <<>> THEN <<>>
    ELSE chunk_document(Head(docs)) \o Flat(Tail(docs))

\* C18: for every list of documents, the empty list and a list whose
\* documents all give no chunk included, chunk_all_documents returns,
\* without an error, the chunks of chunk_document(d) for each document d,
\* concatenated in document order.
C18_FlatConcat ==
    ChunkedAll =>
        /\ pc = "done"
        /\ raised = None
        /\ chunks = Flat(documents)

\* the words of the text that are over chunk_size on their own
Oversized ==
    LET words == SplitWords(doc.page_content)
    IN  {j \in 1..Len(words) : count_tokens(words[j]) > args.chunk_size}

\* C19: when one word of the text handed to chunk_recursive is over
\* chunk_size on its own, that word is a chunk of its own: some chunk's text
\* is exactly the word, and no chunk holds the word next to other words or
\* next to a copy of itself.
C19_OversizedAlone ==
    (Ran("chunk_recursive") /\ Cardinality(Oversized) = 1) =>
        LET word == SplitWords(doc.page_content)[Only(Oversized)]
        IN  /\ \E i \in 1..Len(chunks) : chunks[i].text = word
            /\ \A i \in 1..Len(chunks) :
                  (\E j \in 1..WordCount(chunks[i].text) :
                        SplitWords(chunks[i].text)[j] = word)
                    => chunks[i].text = word

\* the last n characters of s
Suffix(s, n) == SubSeq(s, Len(s) - n + 1, Len(s))

\* a call made from the loop over the parts is about to return
ReturnsToLoop ==
    /\ pc = "split"
    /\ Len(stack) > 1
    /\ Top.at = "return"
    /\ stack[Len(stack) - 1].at = "call_sub"

\* C20: when the next part would overflow a non-empty buffer, the new buffer
\* is the carry-forward, the separator and the overflowing part (the part
\* alone when nothing is carried), the carry-forward being the last at most
\* 4 * overlap characters of the last sub-chunk emitted; so with overlap = 0
\* nothing is carried.
C20_Carry ==
    [][ReturnsToLoop =>
            LET caller == stack[Len(stack) - 1]
                sep == separators[caller.sep_idx + 1]
                part == caller.items[caller.k]
                sub_chunks == Top.result
                buffer == stack'[Len(stack')].current
                last == IF sub_chunks = <<>> THEN <<>>
                        ELSE sub_chunks[Len(sub_chunks)]
                carry == Suffix(last, Min(4 * args.overlap, Len(last)))
            IN  /\ Len(stack') = Len(stack) - 1
                /\ Len(carry) <= 4 * args.overlap
                /\ buffer = IF carry = <<>> THEN part
                            ELSE carry \o sep \o part]_vars

\* the hard split is at a word that makes the buffer overflow
WordOverflows ==
    /\ pc = "split"
    /\ Top.at = "words"
    /\ Top.k <= Len(Top.items)
    /\ ~Fits(Join(Append(Top.current, Top.items[Top.k]), <<SP>>),
             args.chunk_size)

\* C21: in the word-level hard split, when a word makes the buffer exceed
\* chunk_size, the buffer without that word is emitted, and the next buffer
\* is the last overlap words of the emitted chunk followed by the overflowing
\* word once: no word is repeated but through this carry of at most overlap
\* words.
C21_WordCarry ==
    [][WordOverflows =>
            LET word == Top.items[Top.k]
                emitted == Top.current
                carry == Suffix(emitted, Min(args.overlap, Len(emitted)))
                after == stack'[Len(stack')]
            IN  /\ Len(stack') = Len(stack)
                /\ after.result = Append(Top.result, Join(emitted, <<SP>>))
                /\ Len(carry) <= args.overlap
                /\ after.current = carry \o <<word>>]_vars

\* whether a text is blank: empty, or whitespace only
Blank(text) == \A i \in 1..Len(text) : text[i] \in Whitespace

\* C22: no chunk emitted by chunk_recursive has an empty or whitespace-only
\* text, and no chunk's text starts or ends with whitespace, whatever the
\* text and whichever separator level its pieces come from, the word-level
\* hard split included.
C22_Trimmed ==
    Ran("chunk_recursive") =>
        \A i \in 1..Len(chunks) :
            /\ ~Blank(chunks[i].text)
            /\ chunks[i].text[1] \notin Whitespace
            /\ chunks[i].text[Len(chunks[i].text)] \notin Whitespace

\* a run that reached the hard split, whose raw pieces included a blank one
\* and one with whitespace at an end, and that emitted chunks
C22_Witness ==
    /\ Ran("chunk_recursive")
    /\ chunks # <<>>
    /\ deepest >= Len(separators)
    /\ \E i \in 1..Len(raw_chunks) :
          ~Blank(raw_chunks[i]) /\ strip(raw_chunks[i]) # raw_chunks[i]

\* the filtered search was sent and came back with nothing
FilterEmpty ==
    /\ Retrieved
    /\ FirstSearch.fn = "search_with_filter"
    /\ FirstSearch.ok
    /\ FirstSearch.response.documents = <<>>

\* C23: when the filtered search comes back without an error but with no
\* result, smart_retrieve falls back to one unfiltered search with the same
\* query and the same k, as the comment on the except branch says.
C23_EmptyFallback ==
    FilterEmpty =>
        /\ Len(searches) = 2
        /\ LastSearch.fn = "search"
        /\ LastSearch.where = NoWhere
        /\ LastSearch.query = query
        /\ LastSearch.k = args.k

\* rag_chat has returned
RagReturned == args.fn = "rag_chat" /\ pc = "done"

\* whether a result came from a sentence-window chunk
FromWindow(r) ==
    /\ K_strategy \in DOMAIN r.metadata
    /\ r.metadata[K_strategy] = "sentence_window"

\* C24: for a retrieved result that came from a sentence-window chunk, the
\* context text rag_chat builds for the LLM (format_context of
\* smart_retrieve's results) holds the chunk's window_text, the wider
\* surrounding context, and not only the one embedded sentence.
C24_WindowInContext ==
    RagReturned =>
        \A j \in 1..Len(results) :
            FromWindow(results[j]) =>
                Contains(context, results[j].metadata.window_text)

\* the format and doc_type tags _load_page4 writes on every chef's note
Page4Tags == [format |-> "plain_text", doc_type |-> "chef_note"]

\* the document carries the tags of a loaded chef's note
LoadedChefNote ==
    /\ HasTag("format") /\ doc.metadata.format = Page4Tags.format
    /\ HasTag("doc_type") /\ doc.metadata.doc_type = Page4Tags.doc_type

\* C25: every chef's note the loaders produce (doc_type chef_note, as built
\* by _load_page4) is chunked by chunk_document with the sentence-window
\* strategy, window_size 2, as the routing comments say.
C25_ChefNoteWindowed ==
    (Returned /\ args.fn = "chunk_document" /\ LoadedChefNote) =>
        /\ call = CallWindow(ChefWindowSize)
        /\ \A i \in 1..Len(chunks) :
              Meta(i)[K_strategy] = "sentence_window"

\* C27: every search smart_retrieve sends to the index, filtered or not, is
\* a query by the vector embed_query gives the query text, so the filtered
\* search and the unfiltered fallback rank against the same embedding.
C27_ByEmbedding ==
    Retrieved =>
        \A j \in 1..Len(searches) :
            /\ searches[j].by = ByEmbedding
            /\ searches[j].query = query

\* the history stored for a user; none when the user has no entry
HistoryOf(store, user_id) == Get(store, user_id, <<>>)

\* the step is a call of chat that returned
ChatReturns == args'.fn = "chat" /\ raised' = None

\* the step is a call of chat that an exception left
ChatFails == args'.fn = "chat" /\ raised' # None

\* C26: whatever chat and reset calls were made for whatever users, every
\* user's stored history holds at most 20 messages; and a chat that returns
\* leaves the user's history equal to the last 20 (or fewer) messages of
\* the previous history extended by the new user message and the reply.
C26_LastTwenty ==
    [][/\ \A u \in DOMAIN sessions' : Len(sessions'[u]) <= HistoryCap
       /\ ChatReturns =>
            LET u == args'.user_id
                extended == HistoryOf(sessions, u)
                                \o <<Turn("user", query'),
                                     Turn("assistant", reply')>>
            IN  /\ u \in DOMAIN sessions'
                /\ Len(sessions'[u]) = Min(Len(extended), HistoryCap)
                /\ sessions'[u] = Suffix(extended, Len(sessions'[u]))]_vars

\* the first user's history was full and has lost its oldest exchanges to
\* newer ones, and the second user has an exchange stored
C26_Witness ==
    /\ args.fn = "chat" /\ raised = None
    /\ Len(HistoryOf(sessions, "+1")) = HistoryCap
    /\ turn["+1"] > (HistoryCap \div 2) + 1
    /\ sessions["+1"][1].content # Message("+1", 1)
    /\ sessions["+1"][HistoryCap].content
          = call_llm(Answer("+1", turn["+1"]))
    /\ Len(HistoryOf(sessions, "+2")) = 2

\* the roles of a message list run user, assistant, user, assistant, ...
Alternates(history) ==
    \A j \in 1..Len(history) :
        history[j].role = IF j % 2 = 1 THEN "user" ELSE "assistant"

\* every reply of a history directly follows the message it answers
Paired(history, user_id) ==
    /\ Len(history) % 2 = 0
    /\ \A i \in 1..(Len(history) \div 2) :
          \E n \in 1..turn[user_id] :
              /\ history[2 * i - 1] = Turn("user", Message(user_id, n))
              /\ history[2 * i]
                    = Turn("assistant", call_llm(Answer(user_id, n)))

\* C28: whatever chat and reset calls were made, every user's stored
\* history has even length and alternates user, assistant, ... from a user
\* message on; the trim to the last 20 messages never parts a message from
\* its reply; and the last 6 history messages build_prompt takes start with
\* a user message too.
C28_Alternates ==
    /\ \A u \in DOMAIN sessions :
          /\ Len(sessions[u]) % 2 = 0
          /\ Alternates(sessions[u])
          /\ Paired(sessions[u], u)
    /\ (args.fn = "chat" /\ messages # <<>>) =>
          /\ Len(messages) <= PromptTurns + 1
          /\ Len(messages) % 2 = 1
          /\ Alternates(messages)

\* a prompt with six history messages was built from a history the trim
\* had cut, and the answer was stored
C28_Witness ==
    /\ args.fn = "chat" /\ raised = None
    /\ Len(messages) = PromptTurns + 1
    /\ Len(HistoryOf(sessions, args.user_id)) = HistoryCap
    /\ turn[args.user_id] > (HistoryCap \div 2) + 1

\* C29: when chat fails for a user (retrieval or the LLM call raises), the
\* sessions store is left exactly as it was: no message is added, no entry
\* is made for a user without one, no other user's history changes; and a
\* chat that returns changes the entry of its own user only.
C29_FailureKeepsStore ==
    [][/\ ChatFails =>
            /\ DOMAIN sessions' = DOMAIN sessions
            /\ \A u \in DOMAIN sessions : sessions'[u] = sessions[u]
       /\ ChatReturns =>
            /\ DOMAIN sessions' = DOMAIN sessions \cup {args'.user_id}
            /\ \A u \in DOMAIN sessions \ {args'.user_id} :
                  sessions'[u] = sessions[u]]_vars

\* the LLM call failed for a user without an entry, after the prompt was
\* built, while the other user's history was stored
C29_Witness ==
    /\ args.fn = "chat" /\ raised = LlmError
    /\ messages # <<>>
    /\ args.user_id \notin DOMAIN sessions
    /\ DOMAIN sessions # {}

\* where a word first occurs in the chunks: the chunk and the position in
\* its text, as one number; past every place if it occurs nowhere
FirstPlace(word) ==
    Least(UNION {{i * (MaxText + 1) + p :
                     p \in {q \in 1..Len(chunks[i].text) :
                               OccursAt(chunks[i].text, word, q)}} :
                 i \in 1..Len(chunks)}
          \cup {(Len(chunks) + 1) * (MaxText + 1)})

\* C30: chunk_recursive loses no content: for every text, chunk_size >= 1
\* and overlap >= 0, each whitespace-delimited word of the text occurs in at
\* least one emitted chunk, and the words first occur in the order they
\* have in the text.
C30_NoWordLost ==
    Ran("chunk_recursive") =>
        LET words == SplitWords(doc.page_content)
        IN  /\ \A j \in 1..Len(words) :
                  \E i \in 1..Len(chunks) : Contains(chunks[i].text, words[j])
            /\ \A j \in 1..Len(words), h \in 1..Len(words) :
                  j < h => FirstPlace(words[j]) <= FirstPlace(words[h])

\* the step-by-step run and the function agree on what split returns
SplitAgrees ==
    /\ pc \in {"emit", "done"} =>
         raw_chunks = split(doc.page_content, 0, args.chunk_size, args.overlap)
    /\ pc = "done" =>
         chunks = chunk_recursive(doc, args.chunk_size, args.overlap)
    /\ pc = "cut" =>
         IsCut(split(doc.page_content, 0, args.chunk_size, args.overlap))

\* smart_retrieve as an action and as a function agree on what is sent and
\* what comes back
RetrieveAgrees ==
    Retrieved =>
        \E filter_ok \in BOOLEAN, search_ok \in BOOLEAN :
            LET got == smart_retrieve(query, args.k, collection,
                                      filter_ok, search_ok)
            IN  /\ intent = got.intent
                /\ searches = got.searches
                /\ raised = got.raised
                /\ pc = "done" => results = got.results

====
